---------------------------- MODULE Spec2Model ----------------------------
(***************************************************************************)
(* A model of the VRM material replacers                                   *)
(*   src/vrm_cycles_simple_materials.py  (path-tracer variant, "cycles")   *)
(*   src/vrm_eevee_simple_matgerials.py  (toon variant, "eevee")           *)
(*                                                                         *)
(* A node tree is a sequence of nodes in tree.nodes order.  A node has a   *)
(* type, a name, an image reference (0 = no image), the attributes copied  *)
(* by synthesis, and an ordered sequence of input sockets.  An input       *)
(* socket has a name, at most one incoming link (from = 0: unlinked, else  *)
(* the index of the node at the source end, with the name of the output    *)
(* socket it leaves) and a static default value.  A socket is addressed    *)
(* as <<node index, input index>>; NoSock is the None that                 *)
(* inputs.get(name) returns for an absent name.                            *)
(*                                                                         *)
(* Specifications:                                                         *)
(*   SpecTrace  the upstream image walk as a call-stack machine            *)
(*   SpecWalk   one call of the walk on an acyclic tree                     *)
(*   SpecRamp   the toon synthesis over a grid of ramp centres/softnesses  *)
(*   SpecAlpha  the two alpha classifiers on the same material and base    *)
(*   SpecSynth  inference, then synthesis, of one source material          *)
(*   SpecEmission  the toon inference over sources that carry emission     *)
(*   SpecBuild  synthesis called on every role result and configuration    *)
(*   Spec       the operator run after run over a scene                     *)
(***************************************************************************)
EXTENDS Integers, Sequences, FiniteSets, TLC

VARIABLES
    \* ---- the upstream image walk (SpecTrace)
    tTree,      \* the node tree walked
    tStart,     \* the start socket
    tDepth,     \* the max_depth of the outermost call
    tPc,        \* "idle" | "call" | "loop" | "ret" | "done"
    tCur,       \* the call being entered: [sock, d]
    tStack,     \* frames of calls iterating a source node's inputs: [node, idx, d]
    tRet,       \* the value the last finished call returned (0 = None)
    tVisited,   \* the visited set shared by the whole call tree
    tTrav,      \* per socket: how often its links were traversed
    tCalls,     \* number of calls made so far
    tResult,    \* the value returned by the outermost call
    \* ---- the toon ramp (SpecRamp)
    rCenter,    \* ramp_center handed to build_eevee_toon_material
    rSoft,      \* ramp_softness handed to it
    rPc,        \* "idle" | "start" | "built"
    rRamp,      \* the colour ramp elements of the material built
    \* ---- the two alpha classifiers side by side (SpecAlpha)
    aMat,       \* the source material
    aImages,    \* the image data blocks
    aBase,      \* the base-colour image node handed to both (0 = None)
    aDone,      \* which classifiers have run: subset of {"cycles", "eevee"}
    aCycles,    \* what _guess_alpha_source returned
    aEevee,     \* what guess_alpha_need returned
    \* ---- inference and synthesis of one material (SpecSynth)
    sVariant,   \* "cycles" | "eevee"
    sMat,       \* the source material
    sImages,    \* the image data blocks
    sAlphaOut,  \* whether an image texture node of the host has an Alpha output
    sCfg,       \* the toon configuration handed to synthesis
    sPc,        \* "idle" | "start" | "inferred" | "built" | "raised"
    sRoles,     \* the inferred roles: [base, alpha, normal, emission]
    sNew,       \* the target material
    \* ---- the operator run after run over a scene (Spec)
    addon,      \* "cycles" | "eevee": which of the two scripts is installed
    materials,  \* the material data blocks, by identity
    data_images, \* the image data blocks
    objects,    \* the objects of the scene, each with its material slots
    engine,     \* scene.render.engine
    opts,       \* the operator's properties of the current run
    pc,         \* "idle" | "slots" | "finished" | "cancelled" | "raised" | "crashed"
    runs,       \* number of runs started
    objs,       \* the target objects of the run, in order
    oi,         \* index into objs of the object being converted
    si,         \* index of the slot the loop is at
    converted,  \* convert_object_materials' local count of converted slots
    slots,      \* its local count of slots scanned
    cache_map,  \* the cache of the run: pairs <<source, target>>
    total_converted,
    total_slots,
    report,     \* the level of the message reported: "" | "WARNING" | "INFO"
    hInferred,  \* history: per material, inferences run on it in this run
    hStart      \* history: the scene as the run found it

traceVars == <<tTree, tStart, tDepth, tPc, tCur, tStack, tRet, tVisited, tTrav,
               tCalls, tResult>>
rampVars == <<rCenter, rSoft, rPc, rRamp>>
alphaVars == <<aMat, aImages, aBase, aDone, aCycles, aEevee>>
synthVars == <<sVariant, sMat, sImages, sAlphaOut, sCfg, sPc, sRoles, sNew>>

runVars == <<addon, materials, data_images, objects, engine, opts, pc, runs, objs, oi, si,
             converted, slots, cache_map, total_converted, total_slots, report,
             hInferred, hStart>>

vars == <<traceVars, rampVars, alphaVars, synthVars, runVars>>

-----------------------------------------------------------------------------
(* Bounds of the model *)

\* nodes of a tree walked by SpecTrace
NumNodes == 2
\* largest max_depth SpecTrace passes to the walk
MaxDepth == 3
\* how far the ramp grid of SpecRamp reaches beyond [0, 1] and [0, 0.2], in hundredths
RampOver == 5
\* nodes of a source tree of SpecAlpha
AlphaNodes == 2
\* nodes of a source tree of SpecSynth
SynthNodes == 3
\* runs of the operator in one session of Spec
MaxRuns == 2
\* nodes of a source tree of SpecEmission
EmissionNodes == 2
\* nodes of an acyclic tree walked by SpecWalk
WalkNodes == 6

-----------------------------------------------------------------------------
(* Program constants *)

\* max_depth=12, the default of _find_upstream_image_from_socket
DefaultMaxDepth == 12

-----------------------------------------------------------------------------
(* Names: strings as sequences of characters, so that lower() and the      *)
(* substring test `k in nm` are computed, not assumed.                     *)

UpperChars == <<"A","B","C","D","E","F","G","H","I","J","K","L","M",
                "N","O","P","Q","R","S","T","U","V","W","X","Y","Z">>
LowerChars == <<"a","b","c","d","e","f","g","h","i","j","k","l","m",
                "n","o","p","q","r","s","t","u","v","w","x","y","z">>

LowerChar(c) ==
    IF \E i \in 1..Len(UpperChars) : UpperChars[i] = c
    THEN LowerChars[CHOOSE i \in 1..Len(UpperChars) : UpperChars[i] = c]
    ELSE c

\* str.lower()
Lower(s) == [i \in 1..Len(s) |-> LowerChar(s[i])]

\* `k in s` for strings
Contains(s, k) ==
    \E i \in 0..(Len(s) - Len(k)) : \A j \in 1..Len(k) : s[i + j] = k[j]

\* startswith
StartsWith(s, p) ==
    /\ Len(p) <= Len(s)
    /\ \A j \in 1..Len(p) : s[j] = p[j]

-----------------------------------------------------------------------------
(* Node trees *)

NoSock == <<0, 0>>

\* val is the static default_value, always a tuple: <<x>> for a scalar,
\* <<r, g, b, a>> for a colour
Input(nm, kind, from, fromSock, val) ==
    [name |-> nm, kind |-> kind, from |-> from, fromSock |-> fromSock, val |-> val]

Unlinked(nm, kind, val) == Input(nm, kind, 0, "", val)

\* reals are fixed-point numbers in hundredths: 1.0 is 100
Black == <<0, 0, 0, 100>>
White == <<100, 100, 100, 100>>

\* label, op (blend_type / operation), ramp (the colour ramp: interpolation and
\* elements) and group_tree (a group's node_tree is set) are kind-specific
Node(type, nm, image, inputs) ==
    [type |-> type, name |-> nm, image |-> image, interpolation |-> "Linear",
     extension |-> "REPEAT", uv_map |-> "", inputs |-> inputs, label |-> "",
     op |-> "", ramp |-> <<>>, group_tree |-> FALSE]

\* None, where a node is expected
NoneNode == Node("None", <<>>, 0, <<>>)

\* the truth value of a node reference
Truthy(n) == n.type # "None"

\* tree[i], None for index 0
NodeAt(tree, i) == IF i = 0 THEN NoneNode ELSE tree[i]

\* all sockets of a tree
Sockets(tree) ==
    UNION {{<<n, i>> : i \in 1..Len(tree[n].inputs)} : n \in 1..Len(tree)}

\* socket.is_linked
IsLinked(tree, sock) == tree[sock[1]].inputs[sock[2]].from # 0

\* link.from_node of the link arriving at a linked input socket
FromNode(tree, sock) == tree[sock[1]].inputs[sock[2]].from

\* _is_image_node: n and n.type == 'TEX_IMAGE' and n.image is not None
IsImageNode(n) == n.type = "TEX_IMAGE" /\ n.image # 0

-----------------------------------------------------------------------------
(* _find_upstream_image_from_socket                                        *)

\* the mutant of AlreadyVisited: the visited test dropped
AlreadyVisited_Never(sock, visited) == FALSE

\* `if sock in visited: return None`
AlreadyVisited(sock, visited) == sock \in visited

\* the mutant of DepthRemains: the budget ignored
DepthRemains_Always(d) == TRUE

\* `if max_depth > 0:` (cycles), `if max_depth <= 0: continue` (eevee)
DepthRemains(d) == d > 0


(* The walk as the code runs it: one recursion per call, the visited set   *)
(* threaded through the whole call tree.  The result is                    *)
(* [found |-> index of the image node, or 0 for None, visited |-> set].    *)
RECURSIVE WalkSock(_, _, _, _), WalkInputs(_, _, _, _, _)

\* the mutant of WalkInputs: only the first linked input is walked
WalkInputs_FirstOnly(tree, n, i, d, visited) ==
    LET L == {j \in i..Len(tree[n].inputs) : IsLinked(tree, <<n, j>>)}
    IN  IF L = {} THEN [found |-> 0, visited |-> visited]
        ELSE WalkSock(tree, <<n, CHOOSE j \in L : \A k \in L : j <= k>>, d - 1, visited)

\* `for inp in n.inputs: if inp.is_linked: found = walk(inp, d - 1, visited);
\*  if found: return found`
WalkInputs(tree, n, i, d, visited) ==
    IF i > Len(tree[n].inputs)
    THEN [found |-> 0, visited |-> visited]
    ELSE IF IsLinked(tree, <<n, i>>)
         THEN LET r == WalkSock(tree, <<n, i>>, d - 1, visited)
              IN  IF r.found # 0 THEN r
                  ELSE WalkInputs(tree, n, i + 1, d, r.visited)
         ELSE WalkInputs(tree, n, i + 1, d, visited)

WalkSock(tree, sock, d, visited) ==
    IF sock = NoSock \/ AlreadyVisited(sock, visited)
    THEN [found |-> 0, visited |-> visited]
    ELSE LET v1 == visited \cup {sock}
         IN  IF ~IsLinked(tree, sock)
             THEN [found |-> 0, visited |-> v1]
             ELSE LET n == FromNode(tree, sock)
                  IN  IF IsImageNode(tree[n])
                      THEN [found |-> n, visited |-> v1]
                      ELSE IF DepthRemains(d)
                           THEN WalkInputs(tree, n, 1, d, v1)
                           ELSE [found |-> 0, visited |-> v1]

\* _find_upstream_image_from_socket(sock): max_depth = 12, visited = None
find_upstream_image_from_socket(tree, sock) ==
    WalkSock(tree, sock, DefaultMaxDepth, {}).found

-----------------------------------------------------------------------------
(* Materials and images                                                    *)
(*                                                                         *)
(* A material: [name, use_nodes, tree, blend_method, shadow_method,        *)
(* alpha_threshold, use_backface_culling].  Images are shared data blocks: *)
(* a function from image id to [channels, alpha_mode, depth, colorspace].  *)

Material(nm, use_nodes, tree, blend) ==
    [name |-> nm, use_nodes |-> use_nodes, tree |-> tree, blend_method |-> blend,
     shadow_method |-> "OPAQUE", alpha_threshold |-> 50, use_backface_culling |-> FALSE]

\* the smallest element of a set of node indices, 0 for the empty set:
\* "the first node in tree.nodes order such that ..."
First(S) == IF S = {} THEN 0 ELSE CHOOSE i \in S : \A j \in S : i <= j

\* node.inputs.get(name): the socket of that name, None if there is none
InputGet(tree, n, nm) ==
    LET I == {i \in 1..Len(tree[n].inputs) : tree[n].inputs[i].name = nm}
    IN  IF I = {} THEN NoSock ELSE <<n, First(I)>>

\* _find_principled_node: the first BSDF_PRINCIPLED node
find_principled_node(tree) ==
    First({n \in 1..Len(tree) : tree[n].type = "BSDF_PRINCIPLED"})

\* keys of _guess_basecolor_image_node (cycles, line 107)
BaseKeysCycles ==
    {<<"m","a","i","n">>,
     <<"b","a","s","e">>,
     <<"a","l","b","e","d","o">>,
     <<"c","o","l","o","r">>,
     <<"m","a","i","n","t","x">>,
     <<"m","a","i","n","t","e","x">>,
     <<"d","i","f","f","u","s","e">>}
\* keys of guess_basecolor_image_node (eevee, line 62)
BaseKeysEevee ==
    {<<"m","a","i","n">>,
     <<"b","a","s","e">>,
     <<"a","l","b","e","d","o">>,
     <<"c","o","l","o","r">>,
     <<"m","a","i","n","t","e","x">>,
     <<"d","i","f","f","u","s","e">>}

\* the first image node whose lower-cased name contains one of the keys
FirstKeywordImage(tree, keys) ==
    First({n \in 1..Len(tree) :
             /\ IsImageNode(tree[n])
             /\ \E k \in keys : Contains(Lower(tree[n].name), k)})

\* the first image node of the tree
FirstImage(tree) == First({n \in 1..Len(tree) : IsImageNode(tree[n])})

\* rule 1 of both variants: the image traced from the first principled
\* node's Base Color input
PrincipledBaseImage(tree) ==
    LET p == find_principled_node(tree)
    IN  IF p = 0 THEN 0
        ELSE find_upstream_image_from_socket(tree, InputGet(tree, p, "Base Color"))

\* the node types scanned by rule 2 of the cycles variant (line 98)
ShaderTypes == {"BSDF_DIFFUSE", "BSDF_PRINCIPLED", "EMISSION", "BSDF_GLOSSY", "BSDF_TOON"}

\* what `for key in ("Color", "Base Color")` finds at node n
ShaderColorImage(tree, n) ==
    LET c == find_upstream_image_from_socket(tree, InputGet(tree, n, "Color"))
    IN  IF c # 0 THEN c
        ELSE find_upstream_image_from_socket(tree, InputGet(tree, n, "Base Color"))

\* the mutant of AnyShaderColorImage: the rule dropped
AnyShaderColorImage_None(tree) == 0

\* rule 2 of the cycles variant (lines 97-103)
AnyShaderColorImage(tree) ==
    LET n == First({m \in 1..Len(tree) :
                      tree[m].type \in ShaderTypes /\ ShaderColorImage(tree, m) # 0})
    IN  IF n = 0 THEN 0 ELSE ShaderColorImage(tree, n)

\* _guess_basecolor_image_node (cycles): the index of the node, 0 for None
guess_basecolor_cycles(mat) ==
    IF ~mat.use_nodes THEN 0
    ELSE LET tree == mat.tree
             r1 == PrincipledBaseImage(tree)
             r2 == AnyShaderColorImage(tree)
             r3 == FirstKeywordImage(tree, BaseKeysCycles)
         IN  IF r1 # 0 THEN r1
             ELSE IF r2 # 0 THEN r2
             ELSE IF r3 # 0 THEN r3
             ELSE FirstImage(tree)

\* guess_basecolor_image_node (eevee): the index of the node, 0 for None
guess_basecolor_eevee(mat) ==
    IF ~mat.use_nodes THEN 0
    ELSE LET tree == mat.tree
             r1 == PrincipledBaseImage(tree)
             r3 == FirstKeywordImage(tree, BaseKeysEevee)
         IN  IF r1 # 0 THEN r1
             ELSE IF r3 # 0 THEN r3
             ELSE FirstImage(tree)

AlphaResult(mode, node) == [mode |-> mode, node |-> node]

\* `base_img_node and base_img_node.image`
HasBaseImage(tree, base) == base # 0 /\ tree[base].image # 0

\* the mutant of BlendHintNonOpaque: the hint ignored
BlendHintNonOpaque_Never(mat) == FALSE

\* getattr(mat, "blend_method", "OPAQUE") != "OPAQUE"
BlendHintNonOpaque(mat) == mat.blend_method # "OPAQUE"

\* "alpha" in nm or "opacity" in nm or "transparent" in nm
AlphaKeys ==
    {<<"a","l","p","h","a">>,
     <<"o","p","a","c","i","t","y">>,
     <<"t","r","a","n","s","p","a","r","e","n","t">>}

\* the first image node named alpha / opacity / transparent
FirstAlphaNamedImage(tree) ==
    First({n \in 1..Len(tree) :
             /\ IsImageNode(tree[n])
             /\ \E k \in AlphaKeys :
                    Contains(Lower(tree[n].name), k)})

\* _guess_alpha_source (cycles)
guess_alpha_cycles(mat, base, images) ==
    IF ~mat.use_nodes THEN AlphaResult("NONE", 0)
    ELSE LET tree == mat.tree
             a == FirstAlphaNamedImage(tree)
         IN  IF BlendHintNonOpaque(mat) /\ HasBaseImage(tree, base)
             THEN AlphaResult("FROM_BASE", 0)
             ELSE IF a # 0 THEN AlphaResult("SEPARATE_IMAGE", a)
             ELSE IF HasBaseImage(tree, base)
                  THEN \* depth >= 32 returns FROM_BASE, and so does the line after it
                       IF images[tree[base].image].depth >= 32
                       THEN AlphaResult("FROM_BASE", 0)
                       ELSE AlphaResult("FROM_BASE", 0)
                  ELSE AlphaResult("NONE", 0)

\* guess_alpha_need (eevee)
guess_alpha_eevee(mat, base, images) ==
    IF ~mat.use_nodes THEN AlphaResult("NONE", 0)
    ELSE LET tree == mat.tree
             a == FirstAlphaNamedImage(tree)
         IN  IF BlendHintNonOpaque(mat) /\ HasBaseImage(tree, base)
             THEN AlphaResult("FROM_BASE", 0)
             ELSE IF a # 0 THEN AlphaResult("SEPARATE_IMAGE", a)
             ELSE IF HasBaseImage(tree, base)
                  THEN LET img == images[tree[base].image]
                       IN  IF img.channels = 4 THEN AlphaResult("FROM_BASE", 0)
                           ELSE IF img.alpha_mode \in {"STRAIGHT", "PREMUL"}
                                THEN AlphaResult("FROM_BASE", 0)
                                ELSE AlphaResult("NONE", 0)
                  ELSE AlphaResult("NONE", 0)

\* _find_upstream_normal_image: [img, nmap], both 0 for (None, None)
find_upstream_normal_image(tree) ==
    LET n == First({m \in 1..Len(tree) :
                      /\ tree[m].type = "NORMAL_MAP"
                      /\ find_upstream_image_from_socket(
                             tree, InputGet(tree, m, "Color")) # 0})
    IN  IF n = 0 THEN [img |-> 0, nmap |-> 0]
        ELSE [img |-> find_upstream_image_from_socket(tree, InputGet(tree, n, "Color")),
              nmap |-> n]

-----------------------------------------------------------------------------
(* guess_emission_info (eevee)                                             *)

EmissionKeys ==
    {<<"e","m","i","s","s","i","o","n">>,
     <<"_","e","m","i","s","s","i","o","n","c","o","l","o","r">>,
     <<"e","m","i","s","s","i","o","n","f","a","c","t","o","r">>,
     <<"e","m","i","s","s","i","v","e">>}

\* str.replace(" ", "")
RemoveSpaces(s) == SelectSeq(s, LAMBDA c : c # " ")

\* col[:3] != (0, 0, 0)
NonBlack(col) == SubSeq(col, 1, 3) # <<0, 0, 0>>

EmissionInfo(color, strength, img) == [color |-> color, strength |-> strength, img |-> img]

\* default = ((0, 0, 0, 1), 0.0, None)
EmissionDefault == EmissionInfo(Black, 0, 0)

\* the principled branch, lines 124-148: [hit, info]
EmissionFromPrincipled(tree) ==
    LET p == find_principled_node(tree)
    IN  IF p = 0 THEN [hit |-> FALSE, info |-> EmissionDefault]
        ELSE LET c1 == InputGet(tree, p, "Emission Color")
                 color_in == IF c1 # NoSock THEN c1 ELSE InputGet(tree, p, "Emission")
                 strength_in == InputGet(tree, p, "Emission Strength")
                 color == IF color_in # NoSock
                          THEN tree[p].inputs[color_in[2]].val ELSE Black
                 img == IF color_in # NoSock
                        THEN find_upstream_image_from_socket(tree, color_in) ELSE 0
                 s0 == IF strength_in # NoSock
                       THEN tree[p].inputs[strength_in[2]].val[1] ELSE 0
                 s1 == IF s0 = 0 /\ NonBlack(color) THEN 100 ELSE s0
             IN  [hit |-> (s1 > 0 \/ img # 0), info |-> EmissionInfo(color, s1, img)]

\* a group input that the group branch accepts, lines 154-163
GroupEmissionInput(tree, n, i) ==
    LET inp == tree[n].inputs[i]
        nm == RemoveSpaces(Lower(inp.name))
    IN  /\ \E k \in EmissionKeys : Contains(nm, k)
        /\ inp.kind \in {"RGBA", "VECTOR"}
        /\ NonBlack(inp.val)

\* the mutant of EmissionFromGroup: the first group input with a keyword is
\* taken whatever its value
EmissionFromGroup_AnyValue(tree) ==
    LET n == First({m \in 1..Len(tree) :
                      /\ tree[m].type = "GROUP" /\ tree[m].group_tree
                      /\ \E i \in 1..Len(tree[m].inputs) :
                            /\ tree[m].inputs[i].kind \in {"RGBA", "VECTOR"}
                            /\ \E k \in EmissionKeys :
                                  Contains(RemoveSpaces(Lower(tree[m].inputs[i].name)), k)})
    IN  IF n = 0 THEN [hit |-> FALSE, info |-> EmissionDefault]
        ELSE LET i == First({j \in 1..Len(tree[n].inputs) :
                               /\ tree[n].inputs[j].kind \in {"RGBA", "VECTOR"}
                               /\ \E k \in EmissionKeys :
                                     Contains(RemoveSpaces(Lower(tree[n].inputs[j].name)), k)})
                 v == tree[n].inputs[i].val
                 col == IF Len(v) = 3 THEN v \o <<100>> ELSE v
             IN  [hit |-> TRUE,
                  info |-> EmissionInfo(col, 100,
                                        find_upstream_image_from_socket(tree, <<n, i>>))]

\* the group branch, lines 151-163: [hit, info]
EmissionFromGroup(tree) ==
    LET n == First({m \in 1..Len(tree) :
                      /\ tree[m].type = "GROUP" /\ tree[m].group_tree
                      /\ \E i \in 1..Len(tree[m].inputs) : GroupEmissionInput(tree, m, i)})
    IN  IF n = 0 THEN [hit |-> FALSE, info |-> EmissionDefault]
        ELSE LET i == First({j \in 1..Len(tree[n].inputs) : GroupEmissionInput(tree, n, j)})
                 v == tree[n].inputs[i].val
                 col == IF Len(v) = 3 THEN v \o <<100>> ELSE v
             IN  [hit |-> TRUE,
                  info |-> EmissionInfo(col, 100,
                                        find_upstream_image_from_socket(tree, <<n, i>>))]

\* what an EMISSION node yields at lines 168-175: [hit, info]
EmissionNodeInfo(tree, n) ==
    LET col_in == InputGet(tree, n, "Color")
        str_in == InputGet(tree, n, "Strength")
    IN  IF col_in = NoSock THEN [hit |-> FALSE, info |-> EmissionDefault]
        ELSE LET col == tree[n].inputs[col_in[2]].val
                 strength == IF str_in # NoSock THEN tree[n].inputs[str_in[2]].val[1] ELSE 100
                 img == find_upstream_image_from_socket(tree, col_in)
             IN  [hit |-> (strength > 0 /\ (NonBlack(col) \/ img # 0)),
                  info |-> EmissionInfo(col, strength, img)]

\* the emission shader branch, lines 166-175: [hit, info]
EmissionFromShader(tree) ==
    LET n == First({m \in 1..Len(tree) :
                      tree[m].type = "EMISSION" /\ EmissionNodeInfo(tree, m).hit})
    IN  IF n = 0 THEN [hit |-> FALSE, info |-> EmissionDefault]
        ELSE EmissionNodeInfo(tree, n)

\* guess_emission_info
guess_emission_info(mat) ==
    IF ~mat.use_nodes THEN EmissionDefault
    ELSE LET a == EmissionFromPrincipled(mat.tree)
             b == EmissionFromGroup(mat.tree)
             c == EmissionFromShader(mat.tree)
         IN  IF a.hit THEN a.info
             ELSE IF b.hit THEN b.info
             ELSE IF c.hit THEN c.info
             ELSE EmissionDefault

-----------------------------------------------------------------------------
(* The nodes that synthesis creates (nodes.new), with the sockets of the   *)
(* node types of Blender 3.6 that the code touches, in declaration order,  *)
(* and the names Blender gives them.                                       *)

\* node names are unique within a tree: a repeated name carries a numeric suffix
UniqueNames(tree) ==
    [n \in 1..Len(tree) |->
        LET k == Cardinality({m \in 1..(n - 1) : tree[m].name = tree[n].name})
        IN  IF k = 0 THEN tree[n]
            ELSE [tree[n] EXCEPT !.name = @ \o <<".", "0", "0", ToString(k)>>]]

\* Blender makes a name unique in its tree by a numeric suffix
UniqueName(tree, nm) ==
    LET k == Cardinality({n \in 1..Len(tree) : StartsWith(tree[n].name, nm)})
    IN  IF k = 0 THEN nm ELSE nm \o <<".", "0", "0">> \o <<ToString(k)>>

NewOutputMaterial ==
    Node("OUTPUT_MATERIAL", <<"M","a","t","e","r","i","a","l"," ","O","u","t","p","u","t">>, 0,
         <<Unlinked("Surface", "SHADER", <<>>), Unlinked("Volume", "SHADER", <<>>),
           Unlinked("Displacement", "VECTOR", <<0, 0, 0>>)>>)

NewBsdfPrincipled ==
    Node("BSDF_PRINCIPLED", <<"P","r","i","n","c","i","p","l","e","d"," ","B","S","D","F">>, 0,
         <<Unlinked("Base Color", "RGBA", <<80, 80, 80, 100>>),
           Unlinked("Metallic", "VALUE", <<0>>),
           Unlinked("Specular", "VALUE", <<50>>),
           Unlinked("Roughness", "VALUE", <<50>>),
           Unlinked("Emission", "RGBA", Black),
           Unlinked("Emission Strength", "VALUE", <<100>>),
           Unlinked("Alpha", "VALUE", <<100>>),
           Unlinked("Normal", "VECTOR", <<0, 0, 0>>)>>)

NewTexImage(tree) ==
    Node("TEX_IMAGE", UniqueName(tree, <<"I","m","a","g","e"," ","T","e","x","t","u","r","e">>), 0,
         <<Unlinked("Vector", "VECTOR", <<0, 0, 0>>)>>)

NewNormalMap ==
    Node("NORMAL_MAP", <<"N","o","r","m","a","l"," ","M","a","p">>, 0,
         <<Unlinked("Strength", "VALUE", <<100>>), Unlinked("Color", "RGBA", <<50, 50, 100, 100>>)>>)

NewBsdfTransparent ==
    Node("BSDF_TRANSPARENT", <<"T","r","a","n","s","p","a","r","e","n","t"," ","B","S","D","F">>, 0, <<Unlinked("Color", "RGBA", White)>>)

NewMixShader ==
    Node("MIX_SHADER", <<"M","i","x"," ","S","h","a","d","e","r">>, 0,
         <<Unlinked("Fac", "VALUE", <<50>>), Unlinked("Shader", "SHADER", <<>>),
           Unlinked("Shader", "SHADER", <<>>)>>)

NewBsdfDiffuse ==
    Node("BSDF_DIFFUSE", <<"D","i","f","f","u","s","e"," ","B","S","D","F">>, 0,
         <<Unlinked("Color", "RGBA", <<80, 80, 80, 100>>),
           Unlinked("Roughness", "VALUE", <<0>>),
           Unlinked("Normal", "VECTOR", <<0, 0, 0>>)>>)

NewShaderToRGB ==
    Node("SHADERTORGB", <<"S","h","a","d","e","r"," ","t","o"," ","R","G","B">>, 0, <<Unlinked("Shader", "SHADER", <<>>)>>)

NewRGBToBW(tree) ==
    Node("RGBTOBW", UniqueName(tree, <<"R","G","B"," ","t","o"," ","B","W">>), 0,
         <<Unlinked("Color", "RGBA", <<50, 50, 50, 100>>)>>)

\* a new ColorRamp has two elements, black at 0 and white at 1, interpolated linearly
NewValToRGB ==
    [Node("VALTORGB", <<"C","o","l","o","r","R","a","m","p">>, 0, <<Unlinked("Fac", "VALUE", <<50>>)>>)
       EXCEPT !.op = "LINEAR",
              !.ramp = <<[position |-> 0, color |-> Black],
                         [position |-> 100, color |-> White]>>]

NewMixRGB ==
    [Node("MIX_RGB", <<"M","i","x">>, 0,
          <<Unlinked("Fac", "VALUE", <<50>>), Unlinked("Color1", "RGBA", <<50, 50, 50, 100>>),
            Unlinked("Color2", "RGBA", <<50, 50, 50, 100>>)>>)
       EXCEPT !.op = "MIX"]

NewMath ==
    [Node("MATH", <<"M","a","t","h">>, 0,
          <<Unlinked("Value", "VALUE", <<50>>), Unlinked("Value", "VALUE", <<50>>),
            Unlinked("Value", "VALUE", <<50>>)>>)
       EXCEPT !.op = "ADD"]

\* links.new(from_node.outputs[fromSock], to_node.inputs[i]): an input socket
\* holds one link, a new one replaces it
LinkNew(tree, from, fromSock, to, i) ==
    [tree EXCEPT ![to].inputs[i].from = from, ![to].inputs[i].fromSock = fromSock]

\* node.inputs[name].default_value = v
SetDefault(tree, n, nm, v) ==
    [tree EXCEPT ![n].inputs[InputGet(tree, n, nm)[2]].val = v]

\* the index of the input called nm
In(tree, n, nm) == InputGet(tree, n, nm)[2]

\* the mutant of CopyOfTexture: the image not taken over
CopyOfTexture_NoImage(tree, src) ==
    [NewTexImage(tree) EXCEPT !.interpolation = src.interpolation,
                              !.extension = src.extension,
                              !.uv_map = src.uv_map]

\* a texture node that copies image, interpolation, extension and uv_map of src
CopyOfTexture(tree, src) ==
    [NewTexImage(tree) EXCEPT !.image = src.image,
                              !.interpolation = src.interpolation,
                              !.extension = src.extension,
                              !.uv_map = src.uv_map]

\* image.colorspace_settings.name = cs
SetColorspace(images, image, cs) == [images EXCEPT ![image].colorspace = cs]

-----------------------------------------------------------------------------
(* Synthesis runs statement by statement over the tree being built.  The   *)
(* state between two statements is a record: the tree and the image data   *)
(* blocks, the local variables that hold nodes (0 = None or not yet        *)
(* assigned), and whether an exception has left the function.              *)

BuildState(tree, images) ==
    [tree |-> tree, images |-> images, out |-> 0, tex |-> 0, mix |-> 0, ramp |-> 0,
     mul |-> 0,
     principled |-> 0, alpha_bw |-> 0, alpha_thresh |-> 0, connected_alpha |-> FALSE,
     raised |-> FALSE]

\* statement sequencing: F applied to the value of x
Then(x, F(_)) == CHOOSE r \in {F(v) : v \in {x}} : TRUE

\* the mutant of ClearNodes: the nodes of the tree are kept
ClearNodes_Keep(tree) == tree

\* nodes.clear(): every node goes, and every link with its nodes
ClearNodes(tree) == <<>>

\* nodes.new(...), the new node's index left in Len(tree)
AddNode(st, node) == [st EXCEPT !.tree = Append(@, node)]

\* links.new between a node's output and a named input
Link(st, from, fromSock, to, nm) ==
    [st EXCEPT !.tree = LinkNew(@, from, fromSock, to, In(@, to, nm))]

\* a new texture node that mirrors src, its image set to colorspace cs
AddTexture(st, src, cs) ==
    [st EXCEPT !.tree = Append(@, CopyOfTexture(@, src)),
               !.images = SetColorspace(@, src.image, cs)]

\* what synthesis hands back: the material, the image data blocks and
\* whether the function was left by an exception
BuildResult(mat, images, raised) == [mat |-> mat, images |-> images, raised |-> raised]

-----------------------------------------------------------------------------
(* build_simple_cycles_material                                            *)
(*                                                                         *)
(* base, alpha.node and nimg are the source nodes handed over by the       *)
(* caller (NoneNode for None); texAlphaOut says whether an image texture   *)
(* node of the host exposes an "Alpha" output.  links.new raises a         *)
(* TypeError when it is handed the None that outputs.get returns for an    *)
(* absent output, and the function is left at that statement.              *)

\* the mutant of TransparencyFlags: blend_method left as it was
TransparencyFlags_Keep(mat, use_alpha) ==
    [mat EXCEPT !.shadow_method = IF use_alpha THEN "HASHED" ELSE "OPAQUE"]

\* _ensure_cycles_transparency_settings
TransparencyFlags(mat, use_alpha) ==
    [mat EXCEPT !.blend_method = IF use_alpha THEN "BLEND" ELSE "OPAQUE",
                !.shadow_method = IF use_alpha THEN "HASHED" ELSE "OPAQUE"]

\* lines 198-206
CyclesShader(tree, images) ==
    LET cleared == ClearNodes(tree)
    IN  [BuildState(cleared \o <<NewOutputMaterial,
                                 [NewBsdfPrincipled EXCEPT !.inputs[4].val = <<50>>,
                                                           !.inputs[2].val = <<0>>]>>,
                    images)
           EXCEPT !.out = Len(cleared) + 1, !.principled = Len(cleared) + 2]

\* lines 209-224
CyclesBase(st, base) ==
    IF Truthy(base) /\ base.image # 0
    THEN LET tex == Len(st.tree) + 1
         IN  [Link(AddTexture(st, base, "sRGB"), tex, "Color", st.principled, "Base Color")
                EXCEPT !.tex = tex]
    ELSE st

\* the mutant of CyclesNormal: the normal map is left out of the shader
CyclesNormal_Unlinked(st, nimg) ==
    IF Truthy(nimg) /\ nimg.image # 0
    THEN LET tex_n == Len(st.tree) + 1
             nmap == Len(st.tree) + 2
         IN  Link(AddNode(AddTexture(st, nimg, "Non-Color"), NewNormalMap),
                  tex_n, "Color", nmap, "Color")
    ELSE st

\* lines 227-245
CyclesNormal(st, nimg) ==
    IF Truthy(nimg) /\ nimg.image # 0
    THEN LET tex_n == Len(st.tree) + 1
             nmap == Len(st.tree) + 2
         IN  Link(Link(AddNode(AddTexture(st, nimg, "Non-Color"), NewNormalMap),
                       tex_n, "Color", nmap, "Color"),
                  nmap, "Normal", st.principled, "Normal")
    ELSE st

\* the mutant of MixShaderInputs: the two shaders swapped
MixShaderInputs_Swapped(tree, transparent, principled, mix) ==
    LinkNew(LinkNew(tree, transparent, "BSDF", mix, 3), principled, "BSDF", mix, 2)

\* lines 258-259: Shader1 = Transparent, Shader2 = Principled
MixShaderInputs(tree, transparent, principled, mix) ==
    LinkNew(LinkNew(tree, transparent, "BSDF", mix, 2), principled, "BSDF", mix, 3)

\* lines 249-259
CyclesMix(st, alpha) ==
    IF alpha.mode # "NONE"
    THEN LET transparent == Len(st.tree) + 1
             mix == Len(st.tree) + 2
         IN  [st EXCEPT !.tree = MixShaderInputs(
                                    Append(Append(@, NewBsdfTransparent), NewMixShader),
                                    transparent, st.principled, mix),
                        !.mix = mix]
    ELSE st

\* the mutant of CyclesFac: without a source the factor keeps its default
CyclesFac_NoFallback(st, alpha, texAlphaOut) ==
    IF st.mix = 0 THEN st
    ELSE IF alpha.mode = "FROM_BASE" /\ st.tex # 0
         THEN IF texAlphaOut
              THEN Link(st, st.tex, "Alpha", st.mix, "Fac")
              ELSE [st EXCEPT !.raised = TRUE]
    ELSE IF alpha.mode = "SEPARATE_IMAGE" /\ Truthy(alpha.node) /\ alpha.node.image # 0
         THEN Link(AddTexture(st, alpha.node, "Non-Color"), Len(st.tree) + 1,
                   IF texAlphaOut THEN "Alpha" ELSE "Color", st.mix, "Fac")
    ELSE st

\* lines 261-284
CyclesFac(st, alpha, texAlphaOut) ==
    IF st.mix = 0 THEN st
    ELSE IF alpha.mode = "FROM_BASE" /\ st.tex # 0
         THEN IF texAlphaOut
              THEN Link(st, st.tex, "Alpha", st.mix, "Fac")
              ELSE [st EXCEPT !.raised = TRUE]
    ELSE IF alpha.mode = "SEPARATE_IMAGE" /\ Truthy(alpha.node) /\ alpha.node.image # 0
         THEN Link(AddTexture(st, alpha.node, "Non-Color"), Len(st.tree) + 1,
                   IF texAlphaOut THEN "Alpha" ELSE "Color", st.mix, "Fac")
    ELSE [st EXCEPT !.tree = SetDefault(@, st.mix, "Fac", <<100>>)]

\* line 286 / line 288
CyclesSurface(st) ==
    IF st.raised THEN st
    ELSE IF st.mix # 0
         THEN Link(st, st.mix, "Shader", st.out, "Surface")
         ELSE Link(st, st.principled, "BSDF", st.out, "Surface")

build_simple_cycles_material(new_mat, base, alpha, nimg, images, texAlphaOut) ==
    Then(Then(Then(Then(Then(CyclesBase(CyclesShader(new_mat.tree, images), base),
                             LAMBDA st : CyclesNormal(st, nimg)),
                        LAMBDA st : CyclesMix(st, alpha)),
                   LAMBDA st : CyclesFac(st, alpha, texAlphaOut)),
              LAMBDA st : CyclesSurface(st)),
         LAMBDA st :
            LET m == [new_mat EXCEPT !.use_nodes = TRUE, !.tree = st.tree]
            IN  BuildResult(IF st.raised THEN m
                            ELSE TransparencyFlags(m, alpha.mode # "NONE"),
                            st.images, st.raised))

-----------------------------------------------------------------------------
(* build_eevee_toon_material                                               *)
(*                                                                         *)
(* emission is [color, strength, node], node the source node of the        *)
(* emission image (NoneNode for None).                                     *)

\* max(lo, min(hi, x))
Clamp(lo, hi, x) ==
    LET m == IF x < hi THEN x ELSE hi
    IN  IF m > lo THEN m ELSE lo

\* the mutant of ClampSoftness: the lower clamp forgotten
ClampSoftness_NoFloor(s) == IF s < 20 THEN s ELSE 20

\* line 264: s = max(0.0, min(0.2, ramp_softness))
ClampSoftness(s) == Clamp(0, 20, s)

\* lines 263-266: the positions of the two ramp stops
RampStops(ramp_center, ramp_softness) ==
    LET c == Clamp(0, 100, ramp_center)
        s == ClampSoftness(ramp_softness)
    IN  [p0 |-> Clamp(0, 100, c - s), p1 |-> Clamp(0, 100, c + s)]

ToonConfig(method, threshold, center, softness, shadow) ==
    [alpha_blend_method |-> method, alpha_clip_threshold |-> threshold,
     ramp_center |-> center, ramp_softness |-> softness, shadow_value |-> shadow]

\* the mutant of ToonFlags: blend_method taken from the configuration
ToonFlags_Configured(mat, cfg) ==
    [mat EXCEPT !.blend_method = cfg.alpha_blend_method,
                !.shadow_method = "CLIP",
                !.alpha_threshold = cfg.alpha_clip_threshold,
                !.use_backface_culling = FALSE]

\* lines 415-425: blend and shadow method forced to CLIP
ToonFlags(mat, cfg) ==
    [mat EXCEPT !.blend_method = "CLIP",
                !.shadow_method = "CLIP",
                !.alpha_threshold = cfg.alpha_clip_threshold,
                !.use_backface_culling = FALSE]

\* lines 225-246
ToonBase(tree, images, base) ==
    LET cleared == ClearNodes(tree)
        st == [BuildState(Append(cleared, NewOutputMaterial), images)
                 EXCEPT !.out = Len(cleared) + 1]
    IN  IF Truthy(base) /\ base.image # 0
        THEN [AddTexture(st, base, "sRGB") EXCEPT !.tex = Len(st.tree) + 1]
        ELSE st

\* lines 249-287: Diffuse -> Shader to RGB -> RGB to BW -> ColorRamp.  The
\* ramp keeps its elements sorted by position; with p0 <= p1 the two
\* assignments leave them in place.
ToonLight(st, cfg) ==
    LET diffuse == Len(st.tree) + 1
        shader_to_rgb == Len(st.tree) + 2
        rgb_to_bw == Len(st.tree) + 3
        ramp == Len(st.tree) + 4
        stops == RampStops(cfg.ramp_center, cfg.ramp_softness)
        sv == cfg.shadow_value
        nodes == AddNode(AddNode(AddNode(AddNode(st,
                    [NewBsdfDiffuse EXCEPT !.inputs[1].val = White]),
                    NewShaderToRGB),
                    NewRGBToBW(st.tree)),
                    [NewValToRGB EXCEPT
                       !.op = "EASE",
                       !.ramp = <<[position |-> stops.p0, color |-> <<sv, sv, sv, 100>>],
                                  [position |-> stops.p1, color |-> White]>>])
    IN  [Link(Link(Link(nodes, diffuse, "BSDF", shader_to_rgb, "Shader"),
                   shader_to_rgb, "Color", rgb_to_bw, "Color"),
              rgb_to_bw, "Val", ramp, "Fac")
           EXCEPT !.ramp = ramp]

\* lines 290-300
ToonMultiply(st) ==
    LET mul == Len(st.tree) + 1
        a == AddNode(st, [NewMixRGB EXCEPT !.op = "MULTIPLY", !.inputs[1].val = <<100>>])
        b == IF st.tex # 0
             THEN Link(a, st.tex, "Color", mul, "Color1")
             ELSE [a EXCEPT !.tree = SetDefault(@, mul, "Color1", White)]
    IN  [Link(b, st.ramp, "Color", mul, "Color2") EXCEPT !.mul = mul]

\* lines 303-319
ToonPrincipled(st) ==
    LET p == Len(st.tree) + 1
        fresh == [NewBsdfPrincipled EXCEPT !.label = "Toon Output"]
        spec_in == IF \E i \in 1..Len(fresh.inputs) : fresh.inputs[i].name = "Specular IOR Level"
                   THEN "Specular IOR Level"
                   ELSE IF \E i \in 1..Len(fresh.inputs) : fresh.inputs[i].name = "Specular"
                        THEN "Specular" ELSE ""
        a == AddNode(st, fresh)
        b == [a EXCEPT !.tree = SetDefault(SetDefault(@, p, "Metallic", <<0>>),
                                           p, "Roughness", <<100>>)]
        c == IF spec_in # "" THEN [b EXCEPT !.tree = SetDefault(@, p, spec_in, <<0>>)] ELSE b
    IN  [Link(c, st.mul, "Color", p, "Base Color") EXCEPT !.principled = p]

\* the mutant of ToonEmission: without emission the strength stays at 1.0
ToonEmission_Keep(st, emission) ==
    LET p == st.principled
        emission_input_name ==
            IF InputGet(st.tree, p, "Emission Color") # NoSock
            THEN "Emission Color" ELSE "Emission"
        has_strength_in == InputGet(st.tree, p, "Emission Strength") # NoSock
        has_vrm_emission == emission.strength > 0 \/ Truthy(emission.node)
        a == IF has_vrm_emission /\ Truthy(emission.node) /\ emission.node.image # 0
             THEN LET tex_em == Len(st.tree) + 1
                      t == AddTexture(st, emission.node, "sRGB")
                  IN  Link([t EXCEPT !.tree[tex_em].label = "VRM Emission Tex"],
                           tex_em, "Color", p, emission_input_name)
             ELSE IF has_vrm_emission
                  THEN [st EXCEPT !.tree = SetDefault(@, p, emission_input_name,
                                              IF Len(emission.color) >= 4
                                              THEN SubSeq(emission.color, 1, 4)
                                              ELSE emission.color \o <<100>>)]
                  ELSE st
        strength == IF has_vrm_emission
                    THEN IF emission.strength > 100 THEN emission.strength ELSE 100
                    ELSE 100
    IN  IF has_strength_in
        THEN [a EXCEPT !.tree = SetDefault(@, p, "Emission Strength", <<strength>>)]
        ELSE a

\* lines 323-350
ToonEmission(st, emission) ==
    LET p == st.principled
        emission_input_name ==
            IF InputGet(st.tree, p, "Emission Color") # NoSock
            THEN "Emission Color" ELSE "Emission"
        has_strength_in == InputGet(st.tree, p, "Emission Strength") # NoSock
        has_vrm_emission == emission.strength > 0 \/ Truthy(emission.node)
        a == IF has_vrm_emission /\ Truthy(emission.node) /\ emission.node.image # 0
             THEN LET tex_em == Len(st.tree) + 1
                      t == AddTexture(st, emission.node, "sRGB")
                  IN  Link([t EXCEPT !.tree[tex_em].label = "VRM Emission Tex"],
                           tex_em, "Color", p, emission_input_name)
             ELSE IF has_vrm_emission
                  THEN [st EXCEPT !.tree = SetDefault(@, p, emission_input_name,
                                              IF Len(emission.color) >= 4
                                              THEN SubSeq(emission.color, 1, 4)
                                              ELSE emission.color \o <<100>>)]
                  ELSE st
        strength == IF has_vrm_emission
                    THEN IF emission.strength > 100 THEN emission.strength ELSE 100
                    ELSE 0
    IN  IF has_strength_in
        THEN [a EXCEPT !.tree = SetDefault(@, p, "Emission Strength", <<strength>>)]
        ELSE a

\* the mutant of ToonMaskNodes: the threshold node keeps its default value
ToonMaskNodes_DefaultThreshold(st, cfg) ==
    LET a == [st EXCEPT !.tree = SetDefault(@, st.principled, "Alpha", <<100>>)]
    IN  [AddNode(AddNode(a, NewRGBToBW(a.tree)), [NewMath EXCEPT !.op = "GREATER_THAN"])
           EXCEPT !.alpha_bw = Len(st.tree) + 1, !.alpha_thresh = Len(st.tree) + 2]

\* lines 355-372
ToonMaskNodes(st, cfg) ==
    LET a == [st EXCEPT !.tree = SetDefault(@, st.principled, "Alpha", <<100>>)]
    IN  [AddNode(AddNode(a, NewRGBToBW(a.tree)),
                 [NewMath EXCEPT !.op = "GREATER_THAN",
                                 !.inputs[2].val = <<cfg.alpha_clip_threshold>>])
           EXCEPT !.alpha_bw = Len(st.tree) + 1, !.alpha_thresh = Len(st.tree) + 2]

\* the alpha of texture node t into the threshold node: lines 378-384, 400-404
ToonMaskSource(st, t, texAlphaOut) ==
    [(IF texAlphaOut
      THEN [st EXCEPT !.tree = LinkNew(@, t, "Alpha", st.alpha_thresh, 1)]
      ELSE [Link(st, t, "Color", st.alpha_bw, "Color")
              EXCEPT !.tree = LinkNew(@, st.alpha_bw, "Val", st.alpha_thresh, 1)])
       EXCEPT !.connected_alpha = TRUE]

\* lines 377-405
ToonMask(st, alpha, texAlphaOut) ==
    IF alpha.mode = "FROM_BASE" /\ st.tex # 0
    THEN ToonMaskSource(st, st.tex, texAlphaOut)
    ELSE IF alpha.mode = "SEPARATE_IMAGE" /\ Truthy(alpha.node) /\ alpha.node.image # 0
         THEN ToonMaskSource(AddTexture(st, alpha.node, "Non-Color"),
                             Len(st.tree) + 1, texAlphaOut)
         ELSE st

\* lines 408-409 and line 427
ToonSurface(st) ==
    Link(IF st.connected_alpha
         THEN Link(st, st.alpha_thresh, "Value", st.principled, "Alpha")
         ELSE st,
         st.principled, "BSDF", st.out, "Surface")

build_eevee_toon_material(new_mat, base, alpha, cfg, emission, images, texAlphaOut) ==
    Then(Then(Then(Then(Then(Then(Then(ToonLight(ToonBase(new_mat.tree, images, base), cfg),
                                       LAMBDA st : ToonMultiply(st)),
                                  LAMBDA st : ToonPrincipled(st)),
                             LAMBDA st : ToonEmission(st, emission)),
                        LAMBDA st : ToonMaskNodes(st, cfg)),
                   LAMBDA st : ToonMask(st, alpha, texAlphaOut)),
              LAMBDA st : ToonSurface(st)),
         LAMBDA st :
            BuildResult(ToonFlags([new_mat EXCEPT !.use_nodes = TRUE, !.tree = st.tree], cfg),
                        st.images, FALSE))

-----------------------------------------------------------------------------
(* SpecTrace: the same walk as a machine with an explicit call stack, one  *)
(* step per call prologue, per turn of the loop over a node's inputs and   *)
(* per return.                                                             *)

\* a pass-through node with two inputs
MathNode(from1, from2) ==
    Node("MATH", <<"M","a","t","h">>, 0,
         <<Input("Value", "VALUE", from1, "Value", <<0>>),
           Input("Value_001", "VALUE", from2, "Value", <<0>>)>>)

\* an image texture node carrying an image; the walk returns at such a node
\* before it looks at its inputs, so its Vector input is left unlinked
ImageNode(nm, image) ==
    Node("TEX_IMAGE", nm, image, <<Unlinked("Vector", "VECTOR", <<0, 0, 0>>)>>)

TraceNodeChoices ==
    {ImageNode(<<"T","e","x">>, 1)} \cup
    {MathNode(a, b) : a \in 0..NumNodes, b \in 0..NumNodes}

TraceTrees == {UniqueNames(t) : t \in [1..NumNodes -> TraceNodeChoices]}

Top(stack) == stack[Len(stack)]
Pop(stack) == SubSeq(stack, 1, Len(stack) - 1)

\* the parts of the state a specification does not use stay at rest
IdleTrace ==
    /\ tTree = <<>> /\ tStart = NoSock /\ tDepth = 0 /\ tPc = "idle"
    /\ tCur = [sock |-> NoSock, d |-> 0] /\ tStack = <<>> /\ tRet = 0
    /\ tVisited = {} /\ tTrav = <<>> /\ tCalls = 0 /\ tResult = 0

IdleRamp == rCenter = 0 /\ rSoft = 0 /\ rPc = "idle" /\ rRamp = <<>>

IdleAlpha ==
    /\ aMat = Material(<<>>, FALSE, <<>>, "OPAQUE") /\ aImages = <<>> /\ aBase = 0
    /\ aDone = {} /\ aCycles = AlphaResult("NONE", 0) /\ aEevee = AlphaResult("NONE", 0)

IdleSynth ==
    /\ sVariant = "none" /\ sMat = Material(<<>>, FALSE, <<>>, "OPAQUE") /\ sImages = <<>>
    /\ sAlphaOut = TRUE /\ sCfg = ToonConfig("CLIP", 50, 62, 2, 25) /\ sPc = "idle"
    /\ sRoles = <<>> /\ sNew = Material(<<>>, FALSE, <<>>, "OPAQUE")

IdleRun ==
    /\ addon = "none" /\ materials = <<>> /\ data_images = <<>> /\ objects = <<>>
    /\ engine = "" /\ opts = <<>>
    /\ pc = "idle" /\ runs = 0 /\ objs = <<>> /\ oi = 0 /\ si = 0
    /\ converted = 0 /\ slots = 0 /\ cache_map = {}
    /\ total_converted = 0 /\ total_slots = 0 /\ report = ""
    /\ hInferred = <<>> /\ hStart = <<>>

InitTrace ==
    /\ IdleRamp /\ IdleAlpha /\ IdleSynth /\ IdleRun
    /\ tTree \in TraceTrees
    /\ tStart \in {NoSock} \cup {<<1, i>> : i \in 1..Len(tTree[1].inputs)}
    /\ tDepth \in 0..MaxDepth
    /\ tPc = "call"
    /\ tCur = [sock |-> tStart, d |-> tDepth]
    /\ tStack = <<>>
    /\ tRet = 0
    /\ tVisited = {}
    /\ tTrav = [s \in Sockets(tTree) |-> 0]
    /\ tCalls = 0
    /\ tResult = 0

\* the prologue of one call: lines 31-47 (cycles), 28-42 (eevee)
TraceEnter ==
    /\ tPc = "call"
    /\ tCalls' = tCalls + 1
    /\ LET sock == tCur.sock
           d == tCur.d
       IN  IF sock = NoSock \/ AlreadyVisited(sock, tVisited)
           THEN /\ tRet' = 0
                /\ tPc' = "ret"
                /\ UNCHANGED <<tVisited, tTrav, tStack>>
           ELSE /\ tVisited' = tVisited \cup {sock}
                /\ tTrav' = [tTrav EXCEPT ![sock] = @ + 1]
                /\ IF ~IsLinked(tTree, sock)
                   THEN tRet' = 0 /\ tPc' = "ret" /\ UNCHANGED tStack
                   ELSE LET n == FromNode(tTree, sock)
                        IN  IF IsImageNode(tTree[n])
                            THEN tRet' = n /\ tPc' = "ret" /\ UNCHANGED tStack
                            ELSE IF DepthRemains(d)
                                 THEN /\ tStack' = Append(tStack, [node |-> n, idx |-> 1, d |-> d])
                                      /\ tPc' = "loop"
                                      /\ UNCHANGED tRet
                                 ELSE tRet' = 0 /\ tPc' = "ret" /\ UNCHANGED tStack
    /\ UNCHANGED <<tTree, tStart, tDepth, tCur, tResult>>
    /\ UNCHANGED <<rampVars, alphaVars, synthVars, runVars>>

\* one turn of `for inp in n.inputs`: lines 50-52 (cycles), 43-45 (eevee)
TraceLoop ==
    /\ tPc = "loop"
    /\ LET f == Top(tStack)
       IN  IF f.idx > Len(tTree[f.node].inputs)
           THEN /\ tStack' = Pop(tStack)
                /\ tRet' = 0
                /\ tPc' = "ret"
                /\ UNCHANGED tCur
           ELSE IF IsLinked(tTree, <<f.node, f.idx>>)
                THEN /\ tCur' = [sock |-> <<f.node, f.idx>>, d |-> f.d - 1]
                     /\ tPc' = "call"
                     /\ UNCHANGED <<tStack, tRet>>
                ELSE /\ tStack' = [tStack EXCEPT ![Len(tStack)].idx = @ + 1]
                     /\ UNCHANGED <<tCur, tRet, tPc>>
    /\ UNCHANGED <<tTree, tStart, tDepth, tVisited, tTrav, tCalls, tResult>>
    /\ UNCHANGED <<rampVars, alphaVars, synthVars, runVars>>

\* a call has returned tRet to its caller: lines 53-55 (cycles), 46-48 (eevee)
TraceReturn ==
    /\ tPc = "ret"
    /\ IF tStack = <<>>
       THEN /\ tPc' = "done"
            /\ tResult' = tRet
            /\ UNCHANGED <<tStack, tRet>>
       ELSE IF tRet # 0
            THEN /\ tStack' = Pop(tStack)
                 /\ UNCHANGED <<tRet, tPc, tResult>>
            ELSE /\ tStack' = [tStack EXCEPT ![Len(tStack)].idx = @ + 1]
                 /\ tPc' = "loop"
                 /\ UNCHANGED <<tRet, tResult>>
    /\ UNCHANGED <<tTree, tStart, tDepth, tCur, tVisited, tTrav, tCalls>>
    /\ UNCHANGED <<rampVars, alphaVars, synthVars, runVars>>

NextTrace == TraceEnter \/ TraceLoop \/ TraceReturn

SpecTrace == InitTrace /\ [][NextTrace]_vars

-----------------------------------------------------------------------------
(* SpecWalk: one call of the walk on an acyclic tree.  The links of a node *)
(* come from nodes of a higher index; the start socket is the first input  *)
(* of node 1, linked from node 2; the last node is an image node.          *)

\* what node n of a tree of `last` nodes can be
WalkNodeChoices(n, last) ==
    IF n = 1 THEN {MathNode(2, 0)}
    ELSE IF n = last THEN {ImageNode(<<"T","e","x">>, 1)}
    ELSE {ImageNode(<<"T","e","x">>, 1)} \cup
         {MathNode(a, b) : a \in {0} \cup (n + 1)..last, b \in {0} \cup (n + 1)..last}

\* the nodes n..last of the trees
RECURSIVE WalkTreesFrom(_, _)
WalkTreesFrom(n, last) ==
    IF n > last THEN {<<>>}
    ELSE {<<c>> \o rest : c \in WalkNodeChoices(n, last), rest \in WalkTreesFrom(n + 1, last)}

WalkTrees(last) == {UniqueNames(t) : t \in WalkTreesFrom(1, last)}

InitWalk ==
    /\ IdleRamp /\ IdleAlpha /\ IdleSynth /\ IdleRun
    /\ tTree \in WalkTrees(WalkNodes)
    /\ tStart = <<1, 1>>
    /\ tDepth \in 0..MaxDepth
    /\ tPc = "call"
    /\ tCur = [sock |-> tStart, d |-> tDepth]
    /\ tStack = <<>> /\ tRet = 0 /\ tVisited = {} /\ tTrav = <<>> /\ tCalls = 0
    /\ tResult = 0

\* _find_upstream_image_from_socket(tStart, tDepth): the node returned and
\* the visited set the call leaves behind
WalkCall ==
    /\ tPc = "call"
    /\ LET r == WalkSock(tTree, tStart, tDepth, {})
       IN  /\ tResult' = r.found
           /\ tVisited' = r.visited
    /\ tPc' = "done"
    /\ UNCHANGED <<tTree, tStart, tDepth, tCur, tStack, tRet, tTrav, tCalls>>
    /\ UNCHANGED <<rampVars, alphaVars, synthVars, runVars>>

NextWalk == WalkCall

SpecWalk == InitWalk /\ [][NextWalk]_vars

-----------------------------------------------------------------------------
(* Node names and image data blocks of the source materials                *)

N_MainTex == <<"M","a","i","n","T","e","x">>
N_Tex == <<"T","e","x">>
N_Opacity == <<"O","p","a","c","i","t","y">>
N_Body == <<"B","o","d","y">>

\* an image data block: what the classifiers read of it, and its colour space
Image(channels, alpha_mode, depth) ==
    [channels |-> channels, alpha_mode |-> alpha_mode, depth |-> depth,
     colorspace |-> "sRGB"]

\* the node references that inference returns are handed to synthesis as nodes
AlphaForBuild(tree, a) == [mode |-> a.mode, node |-> NodeAt(tree, a.node)]
EmissionForBuild(tree, e) ==
    [color |-> e.color, strength |-> e.strength, node |-> NodeAt(tree, e.img)]

-----------------------------------------------------------------------------
(* SpecRamp: build_eevee_toon_material over a grid of ramp centres and     *)
(* softnesses, in hundredths, reaching beyond the ranges of the operator's *)
(* properties (the function is callable with any value).                   *)

RampCenters == (0 - RampOver)..(100 + RampOver)
RampSoftnesses == (0 - RampOver)..(20 + RampOver)

InitRamp ==
    /\ IdleTrace /\ IdleAlpha /\ IdleSynth /\ IdleRun
    /\ rCenter \in RampCenters
    /\ rSoft \in RampSoftnesses
    /\ rPc = "start"
    /\ rRamp = <<>>

\* the toon material built for a source without images; rRamp is what the
\* ColorRamp node of the result holds
RampBuild ==
    /\ rPc = "start"
    /\ LET r == build_eevee_toon_material(
                     Material(N_Body, TRUE, <<>>, "OPAQUE"), NoneNode,
                     AlphaResult("NONE", NoneNode),
                     ToonConfig("CLIP", 50, rCenter, rSoft, 25),
                     EmissionForBuild(<<>>, EmissionDefault), <<>>, TRUE)
            n == First({i \in 1..Len(r.mat.tree) : r.mat.tree[i].type = "VALTORGB"})
       IN  rRamp' = r.mat.tree[n].ramp
    /\ rPc' = "built"
    /\ UNCHANGED <<rCenter, rSoft>>
    /\ UNCHANGED <<traceVars, alphaVars, synthVars, runVars>>

NextRamp == RampBuild

SpecRamp == InitRamp /\ [][NextRamp]_vars

-----------------------------------------------------------------------------
(* SpecAlpha: _guess_alpha_source (cycles) and guess_alpha_need (eevee)    *)
(* applied to the same material and the same base-colour image node.       *)

AlphaNodeChoices ==
    {ImageNode(nm, img) : nm \in {N_MainTex, N_Tex, N_Opacity}, img \in {0, 1}}

AlphaTrees == {UniqueNames(t) : t \in [1..AlphaNodes -> AlphaNodeChoices]}

\* Image.channels, Image.alpha_mode, Image.depth
ImageChoices ==
    {Image(c, m, d) : c \in {3, 4},
                      m \in {"NONE", "STRAIGHT", "PREMUL", "CHANNEL_PACKED"},
                      d \in {24, 32, 96}}

BlendMethods == {"OPAQUE", "BLEND", "CLIP", "HASHED"}

InitAlpha ==
    /\ IdleTrace /\ IdleRamp /\ IdleSynth /\ IdleRun
    /\ \E tree \in AlphaTrees, un \in BOOLEAN, b \in BlendMethods :
           aMat = Material(N_Body, un, tree, b)
    /\ aImages \in [{1} -> ImageChoices]
    /\ aBase \in {0} \cup {n \in 1..Len(aMat.tree) : IsImageNode(aMat.tree[n])}
    /\ aDone = {}
    /\ aCycles = AlphaResult("NONE", 0)
    /\ aEevee = AlphaResult("NONE", 0)

GuessAlphaCycles ==
    /\ "cycles" \notin aDone
    /\ aCycles' = guess_alpha_cycles(aMat, aBase, aImages)
    /\ aDone' = aDone \cup {"cycles"}
    /\ UNCHANGED <<aMat, aImages, aBase, aEevee>>
    /\ UNCHANGED <<traceVars, rampVars, synthVars, runVars>>

GuessAlphaEevee ==
    /\ "eevee" \notin aDone
    /\ aEevee' = guess_alpha_eevee(aMat, aBase, aImages)
    /\ aDone' = aDone \cup {"eevee"}
    /\ UNCHANGED <<aMat, aImages, aBase, aCycles>>
    /\ UNCHANGED <<traceVars, rampVars, synthVars, runVars>>

NextAlpha == GuessAlphaCycles \/ GuessAlphaEevee

SpecAlpha == InitAlpha /\ [][NextAlpha]_vars

-----------------------------------------------------------------------------
(* SpecSynth: one source material converted into a fresh target, as        *)
(* convert_object_materials does for a slot with create_new: the target    *)
(* is a copy of the source under the marker prefix, the roles are inferred *)
(* from the source, and the target is rebuilt from them.                   *)

\* "VRM_SIMPLE_" (cycles, line 325), "VRM_TOON_" (eevee, line 491)
Prefix(variant) ==
    IF variant = "cycles"
    THEN <<"V","R","M","_","S","I","M","P","L","E","_">>
    ELSE <<"V","R","M","_","T","O","O","N","_">>

\* source nodes: a principled shader with its Base Color fed by node `from`
\* (0: unlinked) and a static emission strength, a diffuse shader and a
\* normal map with their Color fed by node `from`
PrincipledNode(from, strength) ==
    [NewBsdfPrincipled EXCEPT !.inputs[1].from = from,
                              !.inputs[1].fromSock = IF from = 0 THEN "" ELSE "Color",
                              !.inputs[6].val = <<strength>>]
DiffuseNode(from) ==
    [NewBsdfDiffuse EXCEPT !.inputs[1].from = from,
                           !.inputs[1].fromSock = IF from = 0 THEN "" ELSE "Color"]
NormalMapNode(from) ==
    [NewNormalMap EXCEPT !.inputs[2].from = from,
                         !.inputs[2].fromSock = IF from = 0 THEN "" ELSE "Color"]

SynthNodeChoices ==
    {ImageNode(N_MainTex, 1), ImageNode(N_Tex, 1), ImageNode(N_Tex, 2),
     ImageNode(N_Opacity, 2), ImageNode(N_Tex, 0)}
    \cup {PrincipledNode(f, e) : f \in 0..SynthNodes, e \in {0, 100}}
    \cup {DiffuseNode(f) : f \in 0..SynthNodes}
    \cup {NormalMapNode(f) : f \in 0..SynthNodes}

\* the source materials with trees of n nodes: a material that uses nodes
\* has a tree; one that does not has none
SynthMaterials(n) ==
    {Material(N_Body, TRUE, UniqueNames(tree), b) :
        tree \in [1..n -> SynthNodeChoices], b \in {"OPAQUE", "BLEND"}}
    \cup {Material(N_Body, FALSE, <<>>, b) : b \in {"OPAQUE", "BLEND"}}

\* image 1 has an alpha channel, image 2 has none
SynthImages == <<Image(4, "STRAIGHT", 32), Image(3, "NONE", 24)>>

InitSynth ==
    /\ IdleTrace /\ IdleRamp /\ IdleAlpha /\ IdleRun
    /\ sVariant \in {"cycles", "eevee"}
    /\ sMat \in SynthMaterials(SynthNodes)
    /\ sImages = SynthImages
    /\ sAlphaOut \in BOOLEAN
    /\ sCfg = ToonConfig("CLIP", 50, 62, 2, 25)
    /\ sPc = "start"
    /\ sRoles = <<>>
    /\ sNew = Material(<<>>, FALSE, <<>>, "OPAQUE")

\* the roles as convert_object_materials infers them from the source:
\* cycles lines 337-342 (no emission role), eevee lines 498-500 (no normal role)
InferRoles(variant, mat, images) ==
    IF variant = "cycles"
    THEN LET base == guess_basecolor_cycles(mat)
         IN  [base |-> base,
              alpha |-> guess_alpha_cycles(mat, base, images),
              normal |-> IF mat.use_nodes THEN find_upstream_normal_image(mat.tree).img
                         ELSE 0,
              emission |-> EmissionDefault]
    ELSE LET base == guess_basecolor_eevee(mat)
         IN  [base |-> base,
              alpha |-> guess_alpha_eevee(mat, base, images),
              normal |-> 0,
              emission |-> guess_emission_info(mat)]

\* synthesis on `new` from the roles inferred on `old`: cycles line 344,
\* eevee lines 502-523 (the flags are forced once more after the build)
BuildFromRoles(variant, new, old, roles, cfg, images, texAlphaOut) ==
    IF variant = "cycles"
    THEN build_simple_cycles_material(
             new, NodeAt(old.tree, roles.base), AlphaForBuild(old.tree, roles.alpha),
             NodeAt(old.tree, roles.normal), images, texAlphaOut)
    ELSE Then(build_eevee_toon_material(
                  new, NodeAt(old.tree, roles.base), AlphaForBuild(old.tree, roles.alpha),
                  cfg, EmissionForBuild(old.tree, roles.emission), images, texAlphaOut),
              LAMBDA r : [r EXCEPT !.mat = ToonFlags(@, cfg)])

\* new = old.copy(); new.name = prefix + old.name; new.use_nodes = True
\* (cycles); then the inference
SynthInfer ==
    /\ sPc = "start"
    /\ sNew' = [sMat EXCEPT !.name = Prefix(sVariant) \o @,
                            !.use_nodes = IF sVariant = "cycles" THEN TRUE ELSE @]
    /\ sRoles' = InferRoles(sVariant, sMat, sImages)
    /\ sPc' = "inferred"
    /\ UNCHANGED <<sVariant, sMat, sImages, sAlphaOut, sCfg>>
    /\ UNCHANGED <<traceVars, rampVars, alphaVars, runVars>>

SynthBuild ==
    /\ sPc = "inferred"
    /\ LET r == BuildFromRoles(sVariant, sNew, sMat, sRoles, sCfg, sImages, sAlphaOut)
       IN  /\ sNew' = r.mat
           /\ sImages' = r.images
           /\ sPc' = IF r.raised THEN "raised" ELSE "built"
    /\ UNCHANGED <<sVariant, sMat, sAlphaOut, sCfg, sRoles>>
    /\ UNCHANGED <<traceVars, rampVars, alphaVars, runVars>>

NextSynth == SynthInfer \/ SynthBuild

SpecSynth == InitSynth /\ [][NextSynth]_vars

-----------------------------------------------------------------------------
(* SpecEmission: the inference of the toon variant over sources that carry *)
(* emission: a principled shader with an emission colour, strength and     *)
(* link, a group node with MToon-style inputs, an emission shader.         *)

Red == <<100, 0, 0, 100>>

\* a principled shader: emission colour, emission strength, and the node
\* (0: none) linked into the emission colour
PrincipledEmission(color, strength, from) ==
    [NewBsdfPrincipled EXCEPT !.inputs[5].val = color,
                              !.inputs[5].from = from,
                              !.inputs[5].fromSock = IF from = 0 THEN "" ELSE "Color",
                              !.inputs[6].val = <<strength>>]

\* a node group with a tree; the names of a group's inputs are read by
\* character
GroupNode(inputs) ==
    [Node("GROUP", <<"M","T","o","o","n">>, 0, inputs) EXCEPT !.group_tree = TRUE]

\* an MToon-style group: a scalar emission input ahead of the emission colour
GroupEmission(color, from) ==
    GroupNode(<<Unlinked(<<"E","m","i","s","s","i","o","n"," ","S","c","a","l","e">>,
                         "VALUE", <<50>>),
                Input(<<"E","m","i","s","s","i","o","n"," ","C","o","l","o","r">>,
                      "RGBA", from, IF from = 0 THEN "" ELSE "Color", color)>>)

\* a group whose emission input is a vector of three components
GroupEmissionVector ==
    GroupNode(<<Unlinked(<<"L","i","t"," ","C","o","l","o","r">>, "RGBA", Red),
                Unlinked(<<"_","E","m","i","s","s","i","o","n","C","o","l","o","r">>,
                         "VECTOR", <<0, 50, 0>>)>>)

\* an emission shader
EmissionNode(color, strength, from) ==
    Node("EMISSION", <<"E","m","i","s","s","i","o","n">>, 0,
         <<Input("Color", "RGBA", from, IF from = 0 THEN "" ELSE "Color", color),
           Unlinked("Strength", "VALUE", <<strength>>)>>)

\* the nodes of a source tree of n nodes
EmissionNodeChoices(n) ==
    {ImageNode(N_Tex, 1)}
    \cup {PrincipledEmission(cs[1], cs[2], f) :
            cs \in {<<Black, 0 - 100>>, <<Black, 0>>, <<Black, 200>>,
                    <<Red, 0>>, <<Red, 0 - 100>>},
            f \in 0..n}
    \cup {GroupEmission(c, f) : c \in {Black, Red}, f \in 0..n}
    \cup {GroupEmissionVector}
    \cup {EmissionNode(cs[1], cs[2], f) :
            cs \in {<<Black, 100>>, <<Red, 100>>, <<Red, 0>>, <<Red, 0 - 100>>},
            f \in 0..n}

EmissionMaterials(n) ==
    {Material(N_Body, u, UniqueNames(tree), "OPAQUE") :
        tree \in [1..n -> EmissionNodeChoices(n)], u \in BOOLEAN}

InitEmission ==
    /\ IdleTrace /\ IdleRamp /\ IdleAlpha /\ IdleRun
    /\ sVariant = "eevee"
    /\ sMat \in EmissionMaterials(EmissionNodes)
    /\ sImages = SynthImages
    /\ sAlphaOut = TRUE
    /\ sCfg = ToonConfig("CLIP", 50, 62, 2, 25)
    /\ sPc = "start"
    /\ sRoles = <<>>
    /\ sNew = Material(<<>>, FALSE, <<>>, "OPAQUE")

NextEmission == SynthInfer

SpecEmission == InitEmission /\ [][NextEmission]_vars

-----------------------------------------------------------------------------
(* SpecBuild: synthesis called on every role result, over every prior      *)
(* content of the target and every configuration.  The roles are handed    *)
(* over as they are, also those that the inference of this addon does not  *)
(* return (a base node without an image, a separate alpha image without a  *)
(* node).  The nodes of the prior content carry the label "prior", which   *)
(* no node created by synthesis carries.                                   *)

\* three image texture nodes: image 1 (with alpha), image 2 (without), none
BuildSource ==
    Material(N_Body, TRUE,
             UniqueNames(<<ImageNode(N_Tex, 1), ImageNode(N_Tex, 2), ImageNode(N_Tex, 0)>>),
             "OPAQUE")

\* what the target holds before the call: nothing, or a linked tree of its own
PriorTrees ==
    {<<>>,
     LinkNew(<<[NewOutputMaterial EXCEPT !.label = "prior"],
               [NewBsdfPrincipled EXCEPT !.label = "prior"]>>, 2, "BSDF", 1, 1)}

BuildAlphaChoices ==
    {AlphaResult("NONE", 0), AlphaResult("FROM_BASE", 0)} \cup
    {AlphaResult("SEPARATE_IMAGE", n) : n \in {0, 2, 3}}

BuildEmissionChoices ==
    {EmissionInfo(c, s, n) : c \in {Black, Red}, s \in {-100, 0, 50, 200}, n \in {0, 1, 3}}

\* the role results handed to synthesis: cycles takes base, alpha and normal,
\* eevee takes base, alpha and emission
BuildRoles(variant) ==
    IF variant = "cycles"
    THEN {[base |-> b, alpha |-> a, normal |-> n, emission |-> EmissionDefault] :
            b \in {0, 1, 3}, a \in BuildAlphaChoices, n \in 0..3}
    ELSE {[base |-> b, alpha |-> a, normal |-> 0, emission |-> e] :
            b \in {0, 1, 3}, a \in BuildAlphaChoices, e \in BuildEmissionChoices}

\* alpha_blend_method and alpha_clip_threshold of the operator's properties
BuildConfigs(variant) ==
    IF variant = "cycles"
    THEN {ToonConfig("CLIP", 50, 62, 2, 25)}
    ELSE {ToonConfig(m, t, 62, 2, 25) : m \in {"CLIP", "HASHED", "BLEND"}, t \in {50, 30}}

InitBuild ==
    /\ IdleTrace /\ IdleRamp /\ IdleAlpha /\ IdleRun
    /\ sVariant \in {"cycles", "eevee"}
    /\ sMat = BuildSource
    /\ sImages = SynthImages
    /\ sAlphaOut \in BOOLEAN
    /\ sCfg \in BuildConfigs(sVariant)
    /\ sPc = "inferred"
    /\ sRoles \in BuildRoles(sVariant)
    /\ \E prior \in PriorTrees :
          sNew = Material(Prefix(sVariant) \o N_Body, prior # <<>>, prior, "OPAQUE")

NextBuild == SynthBuild

SpecBuild == InitBuild /\ [][NextBuild]_vars

-----------------------------------------------------------------------------
(* Spec: the operator's execute over a scene, run after run.  Materials,   *)
(* images and objects are data blocks addressed by their index (their      *)
(* identity); a material slot holds a material index, 0 for an empty slot. *)
(* A run walks the target objects and their slots in order, one step per   *)
(* slot, with the cache of the run; a later run starts from the scene the  *)
(* earlier one left.  Image texture nodes are those of the host the        *)
(* scripts are written for: they have an Alpha output.                     *)

N_Hair == <<"H","a","i","r">>

\* object types that carry material slots and pass collect_target_objects
TargetTypes == {"MESH", "CURVE", "SURFACE", "META", "FONT"}

Object(type, selected, material_slots) ==
    [type |-> type, selected |-> selected, slots |-> material_slots,
     use_smooth |-> FALSE, weighted_normal |-> FALSE]

\* the node tree a material gets when use_nodes is switched on and it has none
DefaultTree == LinkNew(<<NewOutputMaterial, NewBsdfPrincipled>>, 2, "BSDF", 1, 1)

\* the operator's properties of one invocation
Options(scope, create_new, overwrite, set_engine, smooth, weighted) ==
    [scope |-> scope, create_new_materials |-> create_new, overwrite_existing |-> overwrite,
     set_engine_to_eevee |-> set_engine, auto_shade_smooth |-> smooth,
     add_weighted_normal |-> weighted]

\* the mesh helpers are properties of the toon operator only
OptionChoices(v) ==
    {Options(s, c, o, e, h, h) :
        s \in {"SELECTED", "SCENE"}, c \in BOOLEAN, o \in BOOLEAN,
        e \in IF v = "eevee" THEN BOOLEAN ELSE {FALSE},
        h \in IF v = "eevee" THEN BOOLEAN ELSE {FALSE}}

\* the materials of the scene a session starts from: a textured material, a
\* material without nodes, and a material that already carries the marker
SceneMaterials(v) ==
    {<<Material(N_Body, TRUE, <<ImageNode(N_MainTex, 1), PrincipledNode(1, 0)>>, "OPAQUE"),
       Material(N_Hair, FALSE, <<>>, "OPAQUE"),
       Material(Prefix(v) \o N_Body, TRUE, <<ImageNode(N_Tex, 2), DiffuseNode(1)>>, "OPAQUE")>>}

\* the images of the scene: image 1 is tagged sRGB, or carries another
\* colour space that its user gave it
SceneImages == {SynthImages, [SynthImages EXCEPT ![1].colorspace = "Linear"]}

\* two objects: a mesh with two slots, selected or (with slots 1 and 3) not,
\* and a second object that is a selected mesh, an unselected mesh or a
\* selected camera, with one slot; the scenes without a selected mesh have
\* no target in scope SELECTED
SceneObjects ==
    {<<Object("MESH", TRUE, <<a, b>>), Object(k[1], k[2], <<c>>)>> :
        a \in 0..3, b \in {1, 3}, c \in {1, 3},
        k \in {<<"MESH", TRUE>>, <<"MESH", FALSE>>, <<"CAMERA", TRUE>>}}
    \cup
    {<<Object("MESH", FALSE, <<1, 3>>), Object(k[1], k[2], <<c>>)>> :
        c \in {1, 3},
        k \in {<<"MESH", TRUE>>, <<"MESH", FALSE>>, <<"CAMERA", TRUE>>}}


Init ==
    /\ IdleTrace /\ IdleRamp /\ IdleAlpha /\ IdleSynth
    /\ addon \in {"cycles", "eevee"}
    /\ materials \in SceneMaterials(addon)
    /\ data_images \in SceneImages
    /\ objects \in SceneObjects
    /\ engine = "BLENDER_WORKBENCH"
    /\ opts = Options("SELECTED", TRUE, FALSE, FALSE, FALSE, FALSE)
    /\ pc = "idle" /\ runs = 0 /\ objs = <<>> /\ oi = 0 /\ si = 0
    /\ converted = 0 /\ slots = 0 /\ cache_map = {}
    /\ total_converted = 0 /\ total_slots = 0 /\ report = ""
    /\ hInferred = <<>> /\ hStart = <<>>

\* the indices of S in ascending order
RECURSIVE Ascending(_)
Ascending(S) ==
    IF S = {} THEN <<>>
    ELSE LET m == CHOOSE x \in S : \A y \in S : x <= y
         IN  <<m>> \o Ascending(S \ {m})

collect_target_objects(obs, scope) ==
    Ascending({o \in 1..Len(obs) :
                  /\ obs[o].type \in TargetTypes
                  /\ scope = "SELECTED" => obs[o].selected})

\* the engine of the host's enum the helper picks: "BLENDER_EEVEE" on the
\* host modelled, which has no "BLENDER_EEVEE_NEXT"
ensure_eevee_engine(e) == "BLENDER_EEVEE"

set_shade_smooth(o) == IF o.type = "MESH" THEN [o EXCEPT !.use_smooth = TRUE] ELSE o

ensure_weighted_normal(o) ==
    IF o.type = "MESH" THEN [o EXCEPT !.weighted_normal = TRUE] ELSE o

\* dict membership and lookup by material identity
InCache(cache, m) == \E p \in cache : p[1] = m
CacheGet(cache, m) == (CHOOSE p \in cache : p[1] = m)[2]
CachePut(cache, m, t) == {p \in cache : p[1] # m} \cup {<<m, t>>}

\* the mutant of CarriesMarker: the other script's marker is tested
CarriesMarker_OtherPrefix(v, mat) == StartsWith(mat.name, Prefix("cycles"))

\* old.name.startswith(prefix)
CarriesMarker(v, mat) == StartsWith(mat.name, Prefix(v))

\* the mutant of CacheHit: the cache is never consulted
CacheHit_Never(cache, m) == FALSE

\* `old in cache_map`
CacheHit(cache, m) == InCache(cache, m)

\* a data-block name is unique among its kind: the first of nm, nm.001, ...
\* that no material bears
RECURSIVE UniqueMaterialNameFrom(_, _, _)
UniqueMaterialNameFrom(mats, nm, k) ==
    LET cand == IF k = 0 THEN nm ELSE nm \o <<".", "0", "0", ToString(k)>>
    IN  IF \E m \in 1..Len(mats) : mats[m].name = cand
        THEN UniqueMaterialNameFrom(mats, nm, k + 1)
        ELSE cand
UniqueMaterialName(mats, nm) == UniqueMaterialNameFrom(mats, nm, 0)

\* the first statements of execute up to the loops over the objects
Execute ==
    /\ pc \in {"idle", "finished", "cancelled"}
    /\ runs < MaxRuns
    /\ \E o \in OptionChoices(addon) :
        LET eng == IF addon = "eevee" /\ o.set_engine_to_eevee
                   THEN ensure_eevee_engine(engine) ELSE engine
            targets == collect_target_objects(objects, o.scope)
            smoothed == [i \in 1..Len(objects) |->
                            IF \E t \in 1..Len(targets) : targets[t] = i
                            THEN LET a == IF o.auto_shade_smooth
                                          THEN set_shade_smooth(objects[i]) ELSE objects[i]
                                 IN  IF o.add_weighted_normal
                                     THEN ensure_weighted_normal(a) ELSE a
                            ELSE objects[i]]
        IN  /\ opts' = o
            /\ engine' = eng
            /\ runs' = runs + 1
            /\ hStart' = [materials |-> materials, images |-> data_images,
                          objects |-> objects, engine |-> engine]
            /\ hInferred' = [m \in 1..Len(materials) |-> 0]
            /\ objs' = targets
            /\ cache_map' = {}
            /\ total_converted' = 0 /\ total_slots' = 0
            /\ converted' = 0 /\ slots' = 0
            /\ IF targets = <<>>
               THEN /\ pc' = "cancelled"
                    /\ report' = "WARNING"
                    /\ oi' = 0 /\ si' = 0
                    /\ UNCHANGED objects
               ELSE /\ pc' = "slots"
                    /\ report' = ""
                    /\ oi' = 1 /\ si' = 1
                    /\ objects' = IF addon = "eevee" THEN smoothed ELSE objects
    /\ UNCHANGED <<addon, materials, data_images>>
    /\ UNCHANGED <<traceVars, rampVars, alphaVars, synthVars>>

\* the slot the loop of convert_object_materials is at
AtSlot == pc = "slots" /\ oi <= Len(objs) /\ si <= Len(objects[objs[oi]].slots)
Old == objects[objs[oi]].slots[si]

\* `slots += 1` and on to the next turn of the loop
NextSlot == slots' = slots + 1 /\ si' = si + 1 /\ UNCHANGED <<pc, oi>>

\* old is None: continue
SlotEmpty ==
    /\ AtSlot /\ Old = 0
    /\ NextSlot
    /\ UNCHANGED <<addon, materials, data_images, objects, engine, opts, runs, objs,
                   converted, cache_map, total_converted, total_slots, report,
                   hInferred, hStart>>
    /\ UNCHANGED <<traceVars, rampVars, alphaVars, synthVars>>

Skipped == CarriesMarker(addon, materials[Old]) /\ ~opts.overwrite_existing

\* the name carries the marker and overwrite is off: continue
SlotSkipConverted ==
    /\ AtSlot /\ Old # 0
    /\ Skipped
    /\ NextSlot
    /\ UNCHANGED <<addon, materials, data_images, objects, engine, opts, runs, objs,
                   converted, cache_map, total_converted, total_slots, report,
                   hInferred, hStart>>
    /\ UNCHANGED <<traceVars, rampVars, alphaVars, synthVars>>

\* old in cache_map: the slot takes the cached target
SlotCached ==
    /\ AtSlot /\ Old # 0
    /\ ~Skipped
    /\ CacheHit(cache_map, Old)
    /\ objects' = [objects EXCEPT ![objs[oi]].slots[si] = CacheGet(cache_map, Old)]
    /\ NextSlot
    /\ UNCHANGED <<addon, materials, data_images, engine, opts, runs, objs,
                   converted, cache_map, total_converted, total_slots, report,
                   hInferred, hStart>>
    /\ UNCHANGED <<traceVars, rampVars, alphaVars, synthVars>>

\* neither creating nor overwriting: continue
SlotNothingToDo ==
    /\ AtSlot /\ Old # 0
    /\ ~Skipped
    /\ ~CacheHit(cache_map, Old)
    /\ ~opts.create_new_materials /\ ~opts.overwrite_existing
    /\ NextSlot
    /\ UNCHANGED <<addon, materials, data_images, objects, engine, opts, runs, objs,
                   converted, cache_map, total_converted, total_slots, report,
                   hInferred, hStart>>
    /\ UNCHANGED <<traceVars, rampVars, alphaVars, synthVars>>

\* whether synthesis reads a node of the source that inference handed over
ReadsSourceNodes(roles) ==
    \/ roles.base # 0
    \/ roles.alpha.mode = "SEPARATE_IMAGE" /\ roles.alpha.node # 0
    \/ roles.normal # 0
    \/ roles.emission.img # 0

\* In place (new = old), synthesis clears the tree and then reads the nodes
\* inference returned, which the clearing has freed: the read finds the old
\* values still in memory, or the process dies.
FreedReadOutcomes(inplace, roles) ==
    IF inplace /\ ReadsSourceNodes(roles) THEN {"stale", "crash"} ELSE {"valid"}

\* the rest of the loop body: the target is decided, the roles are inferred
\* from old, the target is rebuilt, cached and assigned
SlotConvert ==
    /\ AtSlot /\ Old # 0
    /\ ~Skipped
    /\ ~CacheHit(cache_map, Old)
    /\ opts.create_new_materials \/ opts.overwrite_existing
    /\ LET inplace == ~opts.create_new_materials
           new == IF inplace THEN Old ELSE Len(materials) + 1
           copied == IF inplace THEN materials
                     ELSE Append(materials,
                                 [materials[Old] EXCEPT
                                     !.name = UniqueMaterialName(materials,
                                                  Prefix(addon) \o materials[Old].name)])
           \* cycles: new.use_nodes = True ahead of the inference
           noded == IF addon = "cycles"
                    THEN [copied EXCEPT ![new].use_nodes = TRUE,
                                        ![new].tree = IF copied[new].use_nodes \/ @ # <<>>
                                                      THEN @ ELSE DefaultTree]
                    ELSE copied
           source == noded[Old]
           roles == InferRoles(addon, source, data_images)
       IN  \E outcome \in FreedReadOutcomes(inplace, roles) :
             IF outcome = "crash"
             THEN /\ pc' = "crashed"
                  /\ materials' = [noded EXCEPT ![new].tree = <<>>]
                  /\ hInferred' = [hInferred EXCEPT ![Old] = @ + 1]
                  /\ UNCHANGED <<data_images, objects, oi, si, slots, converted, cache_map>>
             ELSE LET r == BuildFromRoles(addon, noded[new], source, roles,
                                          ToonConfig("CLIP", 50, 62, 2, 25), data_images, TRUE)
                      grown == IF inplace THEN hInferred ELSE Append(hInferred, 0)
                  IN  /\ materials' = [noded EXCEPT ![new] = r.mat]
                      /\ data_images' = r.images
                      /\ hInferred' = [grown EXCEPT ![Old] = @ + 1]
                      /\ IF r.raised
                         THEN /\ pc' = "raised"
                              /\ UNCHANGED <<objects, oi, si, slots, converted, cache_map>>
                         ELSE /\ cache_map' = CachePut(cache_map, Old, new)
                              /\ objects' = [objects EXCEPT ![objs[oi]].slots[si] = new]
                              /\ converted' = converted + 1
                              /\ NextSlot
    /\ UNCHANGED <<addon, engine, opts, runs, objs, total_converted, total_slots,
                   report, hStart>>
    /\ UNCHANGED <<traceVars, rampVars, alphaVars, synthVars>>

\* convert_object_materials returns (converted, slots); execute adds them up
ObjectReturn ==
    /\ pc = "slots" /\ oi <= Len(objs) /\ si > Len(objects[objs[oi]].slots)
    /\ total_converted' = total_converted + converted
    /\ total_slots' = total_slots + slots
    /\ converted' = 0 /\ slots' = 0
    /\ oi' = oi + 1 /\ si' = 1
    /\ UNCHANGED <<addon, materials, data_images, objects, engine, opts, pc, runs, objs,
                   cache_map, report, hInferred, hStart>>
    /\ UNCHANGED <<traceVars, rampVars, alphaVars, synthVars>>

\* self.report({"INFO"}, ...); return {"FINISHED"}
Report ==
    /\ pc = "slots" /\ oi > Len(objs)
    /\ report' = "INFO"
    /\ pc' = "finished"
    /\ UNCHANGED <<addon, materials, data_images, objects, engine, opts, runs, objs, oi, si,
                   converted, slots, cache_map, total_converted, total_slots,
                   hInferred, hStart>>
    /\ UNCHANGED <<traceVars, rampVars, alphaVars, synthVars>>

Next ==
    \/ Execute
    \/ SlotEmpty
    \/ SlotSkipConverted
    \/ SlotCached
    \/ SlotNothingToDo
    \/ SlotConvert
    \/ ObjectReturn
    \/ Report

Spec == Init /\ [][Next]_vars

-----------------------------------------------------------------------------
(* Claims *)

\* the most inputs a node of the tree has
MaxInputs(tree) ==
    CHOOSE k \in 0..4 : /\ \A n \in 1..Len(tree) : Len(tree[n].inputs) <= k
                        /\ \E n \in 1..Len(tree) : Len(tree[n].inputs) = k

\* C1: on every finite tree, cyclic and reconvergent ones included, for
\* every start socket and every depth budget >= 0, the upstream image walk
\* terminates (it makes at most one call per socket accepted into the
\* visited set plus one per input of the node behind it, its stack is never
\* deeper than the budget, and the stepwise walk ends with the result of the
\* recursive one), it never traverses the links of a socket twice, and the
\* visited set never holds more sockets than the tree has.
C1_TraceTerminates ==
    /\ \A s \in Sockets(tTree) : tTrav[s] <= 1
    /\ tVisited \subseteq Sockets(tTree)
    /\ Cardinality(tVisited) <= Cardinality(Sockets(tTree))
    /\ tCalls <= 1 + Cardinality(Sockets(tTree)) * MaxInputs(tTree)
    /\ Len(tStack) <= tDepth
    /\ tPc = "done" =>
          LET r == WalkSock(tTree, tStart, tDepth, {})
          IN  tResult = r.found /\ tVisited = r.visited

\* a finished walk over a tree with a cycle, in which a call was turned away
\* by the visited set and an image was still found
C1_Witness ==
    /\ tPc = "done"
    /\ tCalls > Cardinality(tVisited)
    /\ tResult # 0
    /\ \E s \in tVisited : FromNode(tTree, s) = s[1]

Min2(a, b) == IF a < b THEN a ELSE b
Max2(a, b) == IF a > b THEN a ELSE b

\* C7: for every ramp centre c and softness s of the grid, values outside
\* the documented ranges included, the positions p0 and p1 of the two stops
\* of the ramp that the toon synthesis builds satisfy 0 <= p0 <= p1 <= 1,
\* with p0 = clamp(clamp(c,0,1) - clamp(s,0,0.2), 0, 1) and
\* p1 = clamp(clamp(c,0,1) + clamp(s,0,0.2), 0, 1).
C7_RampStopsOrdered ==
    rPc = "built" =>
        LET p0 == rRamp[1].position
            p1 == rRamp[2].position
            c == Max2(0, Min2(100, rCenter))
            s == Max2(0, Min2(20, rSoft))
        IN  /\ Len(rRamp) = 2
            /\ 0 <= p0 /\ p0 <= p1 /\ p1 <= 100
            /\ p0 = Max2(0, Min2(100, c - s))
            /\ p1 = Max2(0, Min2(100, c + s))

\* a ramp built from a softness below its range: both stops at the clamped centre
C7_Witness ==
    /\ rPc = "built"
    /\ rSoft < 0 /\ rCenter \in 1..99
    /\ rRamp[1].position = rCenter /\ rRamp[2].position = rCenter

\* the reference priority of the alpha classifier, rule 4 behind a flag
AlphaReference(mat, base, images, rule4) ==
    IF ~mat.use_nodes THEN AlphaResult("NONE", 0)
    ELSE LET tree == mat.tree
             hasBase == base # 0 /\ tree[base].image # 0
             named == {n \in 1..Len(tree) :
                         /\ tree[n].type = "TEX_IMAGE" /\ tree[n].image # 0
                         /\ \E k \in {<<"a","l","p","h","a">>, <<"o","p","a","c","i","t","y">>, <<"t","r","a","n","s","p","a","r","e","n","t">>} :
                                Contains(Lower(tree[n].name), k)}
         IN  IF mat.blend_method # "OPAQUE" /\ hasBase
             THEN AlphaResult("FROM_BASE", 0)
             ELSE IF named # {}
                  THEN AlphaResult("SEPARATE_IMAGE", First(named))
             ELSE IF hasBase /\ (\/ images[tree[base].image].channels = 4
                                 \/ images[tree[base].image].alpha_mode \in {"STRAIGHT", "PREMUL"}
                                 \/ images[tree[base].image].depth >= 32)
                  THEN AlphaResult("FROM_BASE", 0)
             ELSE IF rule4 /\ hasBase THEN AlphaResult("FROM_BASE", 0)
             ELSE AlphaResult("NONE", 0)

\* C10: on the same material and base-colour image, each alpha classifier
\* equals the reference priority, the path-tracer one with rule 4 and the
\* toon one without it, so that wherever rules 1-3 decide (the reference
\* gives the same answer with and without rule 4) both return the same.
C10_ClassifiersFollowReference ==
    aDone = {"cycles", "eevee"} =>
        /\ aCycles = AlphaReference(aMat, aBase, aImages, TRUE)
        /\ aEevee = AlphaReference(aMat, aBase, aImages, FALSE)
        /\ (AlphaReference(aMat, aBase, aImages, TRUE)
               = AlphaReference(aMat, aBase, aImages, FALSE)) => aCycles = aEevee

\* ---- what the claims read off a tree

NodesOfType(tree, type) == {n \in 1..Len(tree) : tree[n].type = type}

\* the link from output fromSock of node `from` arrives at input nm of node `to`
HasLink(tree, from, fromSock, to, nm) ==
    \E i \in 1..Len(tree[to].inputs) :
        /\ tree[to].inputs[i].name = nm
        /\ tree[to].inputs[i].from = from
        /\ tree[to].inputs[i].fromSock = fromSock

\* input nm of node n is unlinked and holds the static value v
HoldsStatic(tree, n, nm, v) ==
    \E i \in 1..Len(tree[n].inputs) :
        /\ tree[n].inputs[i].name = nm
        /\ tree[n].inputs[i].from = 0
        /\ tree[n].inputs[i].val = v

\* the node that feeds the Surface input of the output node (0: none)
SurfaceFrom(tree) ==
    LET out == CHOOSE n \in NodesOfType(tree, "OUTPUT_MATERIAL") : TRUE
    IN  tree[out].inputs[1].from

\* nothing drives alpha: no mix shader, every principled shader's Alpha
\* unlinked at 1.0, and a principled shader wired straight to the output
NoAlphaDriver(tree) ==
    /\ NodesOfType(tree, "MIX_SHADER") = {}
    /\ \A n \in NodesOfType(tree, "BSDF_PRINCIPLED") : HoldsStatic(tree, n, "Alpha", <<100>>)
    /\ SurfaceFrom(tree) \in NodesOfType(tree, "BSDF_PRINCIPLED")

\* the case of C4: a non-opaque blend hint and no base-colour image found
C4_Case == sPc # "start" /\ sMat.blend_method # "OPAQUE" /\ sRoles.base = 0

C5_Scenario(n) ==
    /\ sMat.use_nodes
    /\ sMat.blend_method = "OPAQUE"
    /\ NodesOfType(sMat.tree, "TEX_IMAGE") = {n}
    /\ sMat.tree[n].image # 0
    /\ NodesOfType(sMat.tree, "BSDF_PRINCIPLED") # {}
    /\ \A q \in NodesOfType(sMat.tree, "BSDF_PRINCIPLED") :
           HasLink(sMat.tree, n, "Color", q, "Base Color")
    /\ ~\E k \in {<<"a","l","p","h","a">>, <<"o","p","a","c","i","t","y">>,
                   <<"t","r","a","n","s","p","a","r","e","n","t">>} :
           Contains(Lower(sMat.tree[n].name), k)
    /\ NodesOfType(sMat.tree, "NORMAL_MAP") = {}
    /\ NodesOfType(sMat.tree, "EMISSION") = {}

\* the target has exactly one texture node, it carries the image of source
\* node n, and its output fromSock feeds input nm of a node of type `type`
C5_TextureFeeds(n, fromSock, type, nm) ==
    \E t \in NodesOfType(sNew.tree, "TEX_IMAGE"), q \in NodesOfType(sNew.tree, type) :
        /\ NodesOfType(sNew.tree, "TEX_IMAGE") = {t}
        /\ sNew.tree[t].image = sMat.tree[n].image
        /\ HasLink(sNew.tree, t, fromSock, q, nm)

C5_StaticEmission ==
    LET q == CHOOSE x \in NodesOfType(sMat.tree, "BSDF_PRINCIPLED") :
                 \A y \in NodesOfType(sMat.tree, "BSDF_PRINCIPLED") : x <= y
        e == CHOOSE i \in 1..Len(sMat.tree[q].inputs) :
                 sMat.tree[q].inputs[i].name = "Emission Strength"
        strength == sMat.tree[q].inputs[e].val[1]
    IN  EmissionInfo(<<0, 0, 0, 100>>, strength, 0)

C6_Case == sPc # "start" /\ sRoles.base # 0 /\ sMat.blend_method # "OPAQUE"

\* C6: with a base-colour image and a non-opaque blend hint, alpha inference
\* returns FromBaseAlpha whatever alpha-named image nodes there are, and the
\* path-tracer synthesis (the texture node having an alpha output) builds
\* one mix shader whose first shader input is the transparent shader, whose
\* second is the principled shader, whose factor is the alpha output of the
\* texture that carries the base image and feeds Base Color, and whose
\* output is the link into the Surface input of the output node, the only
\* input of that node that is linked.
C6_MixShaderFromBaseAlpha ==
    C6_Case =>
        /\ sRoles.alpha = AlphaResult("FROM_BASE", 0)
        /\ (sVariant = "cycles" /\ sAlphaOut) =>
              /\ sPc # "raised"
              /\ sPc = "built" =>
                    \E m \in NodesOfType(sNew.tree, "MIX_SHADER"),
                       tr \in NodesOfType(sNew.tree, "BSDF_TRANSPARENT"),
                       q \in NodesOfType(sNew.tree, "BSDF_PRINCIPLED"),
                       t \in NodesOfType(sNew.tree, "TEX_IMAGE") :
                        LET in == sNew.tree[m].inputs
                            out == CHOOSE n \in NodesOfType(sNew.tree, "OUTPUT_MATERIAL") : TRUE
                        IN  /\ NodesOfType(sNew.tree, "MIX_SHADER") = {m}
                            /\ in[1].name = "Fac" /\ in[1].from = t /\ in[1].fromSock = "Alpha"
                            /\ in[2].name = "Shader" /\ in[2].from = tr /\ in[2].fromSock = "BSDF"
                            /\ in[3].name = "Shader" /\ in[3].from = q /\ in[3].fromSock = "BSDF"
                            /\ sNew.tree[t].image = sMat.tree[sRoles.base].image
                            /\ HasLink(sNew.tree, t, "Color", q, "Base Color")
                            /\ HasLink(sNew.tree, m, "Shader", out, "Surface")
                            /\ \A i \in 2..Len(sNew.tree[out].inputs) :
                                   sNew.tree[out].inputs[i].from = 0

\* a path-tracer target built from a source that also holds an image node
\* named Opacity, which is not the base-colour node
C6_Witness ==
    /\ C6_Case /\ sPc = "built" /\ sVariant = "cycles"
    /\ \E n \in NodesOfType(sMat.tree, "TEX_IMAGE") :
           /\ n # sRoles.base
           /\ sMat.tree[n].image # 0
           /\ Contains(Lower(sMat.tree[n].name), <<"o","p","a","c","i","t","y">>)
    /\ NodesOfType(sNew.tree, "MIX_SHADER") # {}

\* the rule order of C9, applied to a material: the index of the node, 0 for none
C9_Reference(mat) ==
    IF ~mat.use_nodes THEN 0
    ELSE LET tree == mat.tree
             Traced(n, nm) ==
                 LET I == {i \in 1..Len(tree[n].inputs) : tree[n].inputs[i].name = nm}
                 IN  IF I = {} THEN 0
                     ELSE WalkSock(tree, <<n, CHOOSE i \in I : \A j \in I : i <= j>>,
                                   12, {}).found
             Min(S) == CHOOSE x \in S : \A y \in S : x <= y
             principled == NodesOfType(tree, "BSDF_PRINCIPLED")
             rule1 == IF principled = {} THEN 0 ELSE Traced(Min(principled), "Base Color")
             Shader(n) == IF Traced(n, "Color") # 0 THEN Traced(n, "Color")
                          ELSE Traced(n, "Base Color")
             shaders == {n \in 1..Len(tree) :
                           /\ tree[n].type \in {"BSDF_DIFFUSE", "BSDF_PRINCIPLED", "EMISSION",
                                                 "BSDF_GLOSSY", "BSDF_TOON"}
                           /\ Shader(n) # 0}
             images == {n \in 1..Len(tree) : tree[n].type = "TEX_IMAGE" /\ tree[n].image # 0}
             named == {n \in images :
                         \E k \in {<<"m","a","i","n">>, <<"b","a","s","e">>,
                                    <<"a","l","b","e","d","o">>, <<"c","o","l","o","r">>,
                                    <<"m","a","i","n","t","e","x">>,
                                    <<"d","i","f","f","u","s","e">>} :
                             Contains(Lower(tree[n].name), k)}
         IN  IF rule1 # 0 THEN rule1
             ELSE IF shaders # {} THEN Shader(Min(shaders))
             ELSE IF named # {} THEN Min(named)
             ELSE IF images # {} THEN Min(images)
             ELSE 0

\* C9: in both variants base-colour inference returns what the first
\* succeeding rule gives, in the order (1) image traced from the first
\* principled shader's Base Color, (2) image traced from Color or Base Color
\* of a diffuse, principled, emission, glossy or toon shader in node order,
\* (3) first image node with a keyword in its lower-cased name, (4) first
\* image node, (5) none.
C9_BaseColorRuleOrder ==
    sPc # "start" => sRoles.base = C9_Reference(sMat)


-----------------------------------------------------------------------------
(* Runs: what the history of the current run says about its slots *)

\* the slots <<k, s>> of the target objects (k indexes objs) the loop has passed
PassedSlots ==
    {ks \in {<<k, s>> : k \in 1..Len(objs), s \in 1..2} :
        /\ ks[2] <= Len(objects[objs[ks[1]]].slots)
        /\ \/ ks[1] < oi
           \/ ks[1] = oi /\ ks[2] < si}

\* the material a slot held when the run began, and the one it holds now
SourceOf(ks) == hStart.objects[objs[ks[1]]].slots[ks[2]]
TargetOf(ks) == objects[objs[ks[1]]].slots[ks[2]]

InRun == pc \in {"slots", "finished", "raised", "crashed"}

\* C2: within a run, inference and synthesis are executed at most once per
\* source material; a slot whose source is in the cache holds the cached
\* target, so that the slots passed so far that referenced the same source
\* hold the same material, and the materials created by the run are one per
\* cached source.
C2_OncePerSource ==
    InRun =>
        /\ \A m \in 1..Len(hInferred) : hInferred[m] <= 1
        /\ \A ks \in PassedSlots :
              InCache(cache_map, SourceOf(ks)) =>
                  TargetOf(ks) = CacheGet(cache_map, SourceOf(ks))
        /\ \A ks1 \in PassedSlots, ks2 \in PassedSlots :
              SourceOf(ks1) = SourceOf(ks2) => TargetOf(ks1) = TargetOf(ks2)
        /\ pc # "raised" =>
              Len(materials) - Len(hStart.materials) =
                  IF opts.create_new_materials THEN Cardinality(cache_map) ELSE 0

\* a finished run in which two slots referenced the same source, which was
\* inferred once and replaced in both by the one new material
C2_Witness ==
    /\ pc = "finished"
    /\ opts.create_new_materials
    /\ \E ks1 \in PassedSlots, ks2 \in PassedSlots :
          /\ ks1 # ks2
          /\ SourceOf(ks1) # 0
          /\ SourceOf(ks1) = SourceOf(ks2)
          /\ hInferred[SourceOf(ks1)] = 1
          /\ TargetOf(ks1) > Len(hStart.materials)
          /\ TargetOf(ks2) = TargetOf(ks1)

\* a slot whose material bore the marker prefix when the run began
MarkedAtStart(ks) ==
    /\ SourceOf(ks) # 0
    /\ StartsWith(hStart.materials[SourceOf(ks)].name, Prefix(addon))

TargetSlots ==
    {ks \in {<<k, s>> : k \in 1..Len(objs), s \in 1..2} :
        ks[2] <= Len(objects[objs[ks[1]]].slots)}

\* C3: with overwrite off, a slot whose material carries the marker prefix is
\* passed over: the material (graph and flags) is as the run found it, the
\* slot still holds it, the cache has no entry for it, and the slot counts as
\* scanned but not as converted (every passed slot is scanned; conversions
\* are at most the passed slots that bore no marker).  A run with overwrite
\* off over slots that all bear the marker (or are empty) leaves materials,
\* images and slots as they were, converts 0 slots and caches nothing.
C3_MarkedSlotSkipped ==
    (pc \in {"slots", "finished"} /\ ~opts.overwrite_existing) =>
        /\ \A ks \in PassedSlots :
              MarkedAtStart(ks) =>
                  /\ TargetOf(ks) = SourceOf(ks)
                  /\ materials[SourceOf(ks)] = hStart.materials[SourceOf(ks)]
                  /\ ~InCache(cache_map, SourceOf(ks))
        /\ total_slots + slots = Cardinality(PassedSlots)
        /\ total_converted + converted
              <= Cardinality({ks \in PassedSlots : SourceOf(ks) # 0 /\ ~MarkedAtStart(ks)})
        /\ (\A ks \in TargetSlots : SourceOf(ks) = 0 \/ MarkedAtStart(ks)) =>
              /\ materials = hStart.materials
              /\ data_images = hStart.images
              /\ \A o \in 1..Len(objects) : objects[o].slots = hStart.objects[o].slots
              /\ cache_map = {}
              /\ total_converted + converted = 0

\* a second run, overwrite off, finished over slots that the first run had
\* converted into new marked materials: all scanned, none converted
C3_Witness ==
    /\ pc = "finished"
    /\ runs = 2
    /\ ~opts.overwrite_existing /\ opts.create_new_materials
    /\ \A ks \in TargetSlots : MarkedAtStart(ks)
    /\ \E ks \in TargetSlots : SourceOf(ks) > 3
    /\ total_slots = Cardinality(TargetSlots)
    /\ total_converted = 0
    /\ materials = hStart.materials


-----------------------------------------------------------------------------
(* Emission inference against its rule list *)

\* the static value of a socket, read as a colour: black unless it has three
\* colour components that are not all zero
C11_NonBlack(inp) == Len(inp.val) >= 3 /\ \E i \in 1..3 : inp.val[i] # 0

\* the colour of a static value as RGBA
C11_Rgba(v) == <<v[1], v[2], v[3], IF Len(v) >= 4 THEN v[4] ELSE 100>>

\* the input of node n with one of the names, 0 if none: the first name wins
C11_InputNamed(tree, n, names) ==
    LET idx(nm) == First({i \in 1..Len(tree[n].inputs) : tree[n].inputs[i].name = nm})
        hits == {k \in 1..Len(names) : idx(names[k]) # 0}
    IN  IF hits = {} THEN 0 ELSE idx(names[First(hits)])

C11_Traced(tree, n, i) == WalkSock(tree, <<n, i>>, DefaultMaxDepth, {}).found

\* rule 1: the candidate the principal shader gives, <<>> if there is none
C11_Rule1(tree) ==
    LET P == {n \in 1..Len(tree) : tree[n].type = "BSDF_PRINCIPLED"}
    IN  IF P = {} THEN <<>>
        ELSE LET p == First(P)
                 col_i == C11_InputNamed(tree, p, <<"Emission Color", "Emission">>)
                 str_i == C11_InputNamed(tree, p, <<"Emission Strength">>)
                 color == IF col_i = 0 THEN Black ELSE tree[p].inputs[col_i].val
                 img == IF col_i = 0 THEN 0 ELSE C11_Traced(tree, p, col_i)
                 given == IF str_i = 0 THEN 0 ELSE tree[p].inputs[str_i].val[1]
                 strength == IF given = 0 /\ color[1] + color[2] + color[3] # 0
                             THEN 100 ELSE given
             IN  IF strength > 0 \/ img # 0
                 THEN <<EmissionInfo(color, strength, img)>>
                 ELSE <<>>

\* rule 2: the group inputs with an emission keyword and a non-black value,
\* in node order and then in input order
C11_Rule2(tree) ==
    LET Q == {s \in Sockets(tree) :
                 /\ tree[s[1]].type = "GROUP" /\ tree[s[1]].group_tree
                 /\ \E k \in EmissionKeys :
                        Contains(RemoveSpaces(Lower(tree[s[1]].inputs[s[2]].name)), k)
                 /\ C11_NonBlack(tree[s[1]].inputs[s[2]])}
    IN  IF Q = {} THEN <<>>
        ELSE LET s == CHOOSE q \in Q :
                          \A r \in Q : q[1] < r[1] \/ (q[1] = r[1] /\ q[2] <= r[2])
             IN  <<EmissionInfo(C11_Rgba(tree[s[1]].inputs[s[2]].val), 100,
                                C11_Traced(tree, s[1], s[2]))>>

\* rule 3: the emission shaders with strength > 0 and a non-black colour or
\* a traced image
C11_Rule3(tree) ==
    LET cand(n) ==
            LET col_i == C11_InputNamed(tree, n, <<"Color">>)
                str_i == C11_InputNamed(tree, n, <<"Strength">>)
            IN  IF col_i = 0 THEN <<>>
                ELSE LET strength == IF str_i = 0 THEN 100 ELSE tree[n].inputs[str_i].val[1]
                         img == C11_Traced(tree, n, col_i)
                     IN  IF strength > 0 /\ (C11_NonBlack(tree[n].inputs[col_i]) \/ img # 0)
                         THEN <<EmissionInfo(tree[n].inputs[col_i].val, strength, img)>>
                         ELSE <<>>
        E == {n \in 1..Len(tree) : tree[n].type = "EMISSION" /\ cand(n) # <<>>}
    IN  IF E = {} THEN <<>> ELSE cand(First(E))

\* the rule list; a material that does not use nodes has no source graph
C11_Reference(mat) ==
    IF ~mat.use_nodes THEN EmissionDefault
    ELSE LET rules == C11_Rule1(mat.tree) \o C11_Rule2(mat.tree) \o C11_Rule3(mat.tree)
                      \o <<EmissionDefault>>
         IN  rules[1]

\* C11: emission inference returns the result of the first rule that
\* qualifies: the principal shader (strength 1 for a zero strength with a
\* non-black colour; accepted with strength > 0 or a traced image), else the
\* first group input with an emission keyword and a non-black value at
\* strength 1, else the first emission shader with strength > 0 and a non-black
\* colour or traced image, else (black, 0, none); a principal shader with black
\* colour, zero strength and no image lets the later rules apply.
C11_EmissionRuleOrder ==
    sPc = "inferred" =>
        /\ sRoles.emission = C11_Reference(sMat)
        /\ (sMat.use_nodes /\ C11_Rule1(sMat.tree) = <<>>) =>
              sRoles.emission = (C11_Rule2(sMat.tree) \o C11_Rule3(sMat.tree)
                                 \o <<EmissionDefault>>)[1]

\* a source whose principal shader is black, at zero strength and unlinked,
\* and whose emission comes from a later node by rule 2 or rule 3
C11_Witness ==
    /\ sPc = "inferred"
    /\ sMat.use_nodes
    /\ \E n \in 1..Len(sMat.tree) : sMat.tree[n].type = "BSDF_PRINCIPLED"
    /\ C11_Rule1(sMat.tree) = <<>>
    /\ sRoles.emission # EmissionDefault
    /\ sRoles.emission.strength > 0

\* C12: the emission strength that emission inference returns is >= 0, for
\* every source graph and every static emission strength, negative ones
\* included.
C12_EmissionStrengthNonNegative ==
    sPc = "inferred" => sRoles.emission.strength >= 0


-----------------------------------------------------------------------------
(* Synthesis on every role result: SpecBuild                               *)

\* the call has been made (it returned or was left by an exception)
Called == sPc \in {"built", "raised"}

\* C13: after any synthesis call, whatever the role result and the prior
\* content of the target, the target graph holds no node (and so no link)
\* from before the call, exactly one output node and exactly one principled
\* shader, and the Surface input of the output node is linked, from the
\* principled shader or from a mix shader that the principled shader feeds.
C13_FreshGraph ==
    Called =>
        LET tree == sNew.tree
            outs == NodesOfType(tree, "OUTPUT_MATERIAL")
            shaders == NodesOfType(tree, "BSDF_PRINCIPLED")
        IN  /\ \A n \in 1..Len(tree) : tree[n].label # "prior"
            /\ Cardinality(outs) = 1
            /\ Cardinality(shaders) = 1
            /\ \A o \in outs : \A q \in shaders :
                   \/ HasLink(tree, q, "BSDF", o, "Surface")
                   \/ \E m \in NodesOfType(tree, "MIX_SHADER") :
                          /\ HasLink(tree, m, "Shader", o, "Surface")
                          /\ HasLink(tree, q, "BSDF", m, "Shader")


-----------------------------------------------------------------------------
(* The normal role: SpecSynth                                              *)

\* the Normal pair of a source: the first normal-map node whose Color input
\* traces to an image, with that image node; <<>> if there is none
C14_Pair(mat) ==
    IF ~mat.use_nodes THEN <<>>
    ELSE LET tree == mat.tree
             Img(n) == find_upstream_image_from_socket(tree, InputGet(tree, n, "Color"))
             maps == {n \in NodesOfType(tree, "NORMAL_MAP") : Img(n) # 0}
         IN  IF maps = {} THEN <<>>
             ELSE LET n == CHOOSE m \in maps : \A k \in maps : m <= k
                  IN  <<[img |-> Img(n), nmap |-> n]>>

\* a texture with the image of the pair feeds a normal map that feeds the
\* Normal input of the principled shader
C14_NormalWired(pair) ==
    \E t \in NodesOfType(sNew.tree, "TEX_IMAGE"),
       nm \in NodesOfType(sNew.tree, "NORMAL_MAP"),
       q \in NodesOfType(sNew.tree, "BSDF_PRINCIPLED") :
        /\ sNew.tree[t].image = sMat.tree[pair.img].image
        /\ HasLink(sNew.tree, t, "Color", nm, "Color")
        /\ HasLink(sNew.tree, nm, "Normal", q, "Normal")

\* no normal map in the target, the Normal input of its shader unlinked
C14_NoNormal ==
    /\ NodesOfType(sNew.tree, "NORMAL_MAP") = {}
    /\ \A q \in NodesOfType(sNew.tree, "BSDF_PRINCIPLED") :
           \A i \in 1..Len(sNew.tree[q].inputs) :
               sNew.tree[q].inputs[i].name = "Normal" => sNew.tree[q].inputs[i].from = 0

-----------------------------------------------------------------------------
(* The emission of the toon synthesis: SpecBuild                           *)

\* the emission role handed to synthesis is present: a positive strength or
\* an image node
C15_HasRole == sRoles.emission.strength > 0 \/ sRoles.emission.img # 0

-----------------------------------------------------------------------------
(* Alpha taken from the base texture: SpecBuild                            *)

\* the case of C16: alpha is FromBaseAlpha and synthesis creates a base texture
C16_Case ==
    /\ sRoles.alpha.mode = "FROM_BASE"
    /\ sRoles.base # 0 /\ sMat.tree[sRoles.base].image # 0

\* output sock of a texture with the base image drives alpha: the Fac of the
\* mix shader (path tracer), or the threshold node that feeds the Alpha of
\* the principled shader, the colour output by way of an RGB to BW node (toon)
C16_Driver(sock) ==
    \E t \in NodesOfType(sNew.tree, "TEX_IMAGE") :
        /\ sNew.tree[t].image = sMat.tree[sRoles.base].image
        /\ IF sVariant = "cycles"
           THEN \E m \in NodesOfType(sNew.tree, "MIX_SHADER") :
                    HasLink(sNew.tree, t, sock, m, "Fac")
           ELSE \E th \in NodesOfType(sNew.tree, "MATH"),
                   q \in NodesOfType(sNew.tree, "BSDF_PRINCIPLED") :
                    /\ HasLink(sNew.tree, th, "Value", q, "Alpha")
                    /\ IF sock = "Alpha"
                       THEN /\ sNew.tree[th].inputs[1].from = t
                            /\ sNew.tree[th].inputs[1].fromSock = "Alpha"
                       ELSE \E bw \in NodesOfType(sNew.tree, "RGBTOBW") :
                                /\ HasLink(sNew.tree, t, "Color", bw, "Color")
                                /\ sNew.tree[th].inputs[1].from = bw
                                /\ sNew.tree[th].inputs[1].fromSock = "Val"

\* C16: in both variants, with alpha FromBaseAlpha, synthesis completes
\* without an error and drives alpha from the alpha output of the new base
\* texture when the texture has one, from its colour output when it has none.
C16_BaseAlphaFallback ==
    (Called /\ C16_Case) =>
        /\ sPc = "built"
        /\ C16_Driver(IF sAlphaOut THEN "Alpha" ELSE "Color")

\* C16 holds of the toon variant, and of the path-tracer variant when the
\* texture has an alpha output
C16_ElsewhereKept ==
    (Called /\ C16_Case /\ (sVariant = "eevee" \/ sAlphaOut)) => C16_BaseAlphaFallback


-----------------------------------------------------------------------------
(* Alpha requested without a source: SpecBuild                             *)

\* source node n is there and carries an image
C17_HasImage(n) == n # 0 /\ sMat.tree[n].image # 0

\* the case of C17: an alpha result other than None of which no source
\* resolves
C17_Case ==
    \/ sRoles.alpha.mode = "FROM_BASE" /\ ~C17_HasImage(sRoles.base)
    \/ sRoles.alpha.mode = "SEPARATE_IMAGE" /\ ~C17_HasImage(sRoles.alpha.node)

\* the textures that the other roles account for: base, normal (path
\* tracer), emission (toon)
C17_OtherTextures ==
    (IF C17_HasImage(sRoles.base) THEN 1 ELSE 0)
    + (IF sVariant = "cycles" /\ C17_HasImage(sRoles.normal) THEN 1 ELSE 0)
    + (IF sVariant = "eevee" /\ C17_HasImage(sRoles.emission.img) THEN 1 ELSE 0)

\* C17: synthesis called with an alpha result other than None of which no
\* source resolves completes normally, creates no alpha texture, and leaves
\* the alpha driver input (Fac of the mix shader in the path-tracer variant,
\* Alpha of the principled shader in the toon variant) unlinked at 1.
C17_NoSourceOpaque ==
    (Called /\ C17_Case) =>
        /\ sPc = "built"
        /\ Cardinality(NodesOfType(sNew.tree, "TEX_IMAGE")) = C17_OtherTextures
        /\ IF sVariant = "cycles"
           THEN /\ NodesOfType(sNew.tree, "MIX_SHADER") # {}
                /\ \A m \in NodesOfType(sNew.tree, "MIX_SHADER") :
                       HoldsStatic(sNew.tree, m, "Fac", <<100>>)
           ELSE \A q \in NodesOfType(sNew.tree, "BSDF_PRINCIPLED") :
                    HoldsStatic(sNew.tree, q, "Alpha", <<100>>)

\* a path-tracer target built for a separate alpha image whose node has no image
C17_Witness ==
    /\ sPc = "built" /\ sVariant = "cycles"
    /\ sRoles.alpha = AlphaResult("SEPARATE_IMAGE", 3)
    /\ sMat.tree[3].image = 0
    /\ NodesOfType(sNew.tree, "MIX_SHADER") # {}


-----------------------------------------------------------------------------
(* The blend mode of the toon variant: SpecBuild                           *)

\* C18: in the toon variant the blend mode of a converted material is the
\* configured alpha blend policy (CLIP, HASHED or BLEND).
C18_BlendModeConfigured ==
    (sPc = "built" /\ sVariant = "eevee") => sNew.blend_method = sCfg.alpha_blend_method

\* what the toon variant does: the blend mode is CLIP whatever the policy
C18_BlendModeClip ==
    (sPc = "built" /\ sVariant = "eevee") => sNew.blend_method = "CLIP"


-----------------------------------------------------------------------------
(* Runs without target objects: Spec                                       *)

\* materials, images and objects (slots, mesh flags, modifiers) are as they
\* were when the run started
C19_DataUntouched ==
    /\ materials = hStart.materials
    /\ data_images = hStart.images
    /\ objects = hStart.objects

\* C19: a run that finds no target objects reports a warning, ends
\* cancelled, and has modified nothing: no material, slot, mesh or scene
\* setting, the render engine included; in both operators.
C19_CancelledUntouched ==
    pc = "cancelled" =>
        /\ report = "WARNING"
        /\ C19_DataUntouched
        /\ engine = hStart.engine

\* what holds of a cancelled run: warning and data untouched in both
\* operators, the engine untouched unless the toon operator was asked to set it
C19_CancelledButEngine ==
    pc = "cancelled" =>
        /\ report = "WARNING"
        /\ C19_DataUntouched
        /\ (addon = "cycles" \/ ~opts.set_engine_to_eevee) => engine = hStart.engine


-----------------------------------------------------------------------------
(* Source materials under create-new: Spec                                 *)

\* the materials that were there when the run started are as they were
C20_MaterialsIntact ==
    \A m \in 1..Len(hStart.materials) : materials[m] = hStart.materials[m]

\* the images that the image texture nodes of those materials reference
\* carry the colour-space tag they had when the run started
C20_ColourSpacesIntact ==
    \A m \in 1..Len(hStart.materials) :
        \A n \in NodesOfType(hStart.materials[m].tree, "TEX_IMAGE") :
            LET image == hStart.materials[m].tree[n].image
            IN  image # 0 =>
                    data_images[image].colorspace = hStart.images[image].colorspace

\* C20: with create-new on, after a run every source material is intact:
\* nodes, links, flags, the attributes of its image texture nodes and the
\* colour-space tag of the images they reference are as before the run.
C20_SourcesIntact ==
    (pc = "finished" /\ opts.create_new_materials) =>
        C20_MaterialsIntact /\ C20_ColourSpacesIntact

\* what holds with create-new on: the material data blocks are intact
C20_SourceBlocksIntact ==
    (pc = "finished" /\ opts.create_new_materials) => C20_MaterialsIntact


-----------------------------------------------------------------------------
(* The walk over the inputs of a node: SpecWalk                            *)

\* the linked inputs of node n, and those of them the walk has visited
C21_Linked(n) == {i \in 1..Len(tTree[n].inputs) : IsLinked(tTree, <<n, i>>)}
C21_Visited(n) == {i \in C21_Linked(n) : <<n, i>> \in tVisited}

\* the nodes that are no image nodes
C21_PassThrough == {n \in 1..Len(tTree) : ~IsImageNode(tTree[n])}

\* C21 as claimed: at a node that is no image node the walk recurses only
\* into the first linked input; later linked inputs are not explored.
C21_FirstInputOnly ==
    tPc = "done" =>
        \A n \in C21_PassThrough :
            \A i \in C21_Visited(n) : \A j \in C21_Linked(n) : i <= j

\* C21 amended: the walk recurses into the linked inputs of the node in
\* declaration order and goes on to the next one when a recursion finds no
\* image: the inputs it has visited are a prefix of the linked inputs, and
\* when the walk returns nothing, a node of which one linked input was
\* visited has all its linked inputs visited.
C21_InputsInOrder ==
    tPc = "done" =>
        \A n \in C21_PassThrough :
            /\ \A i \in C21_Visited(n) :
                   \A j \in C21_Linked(n) : j < i => j \in C21_Visited(n)
            /\ (tResult = 0 /\ C21_Visited(n) # {}) => C21_Visited(n) = C21_Linked(n)

\* the image was found through the second input of node 2 after its first
\* input, linked as well, had been walked in vain
C21_Witness ==
    /\ tPc = "done" /\ tResult # 0
    /\ C21_Visited(2) = {1, 2}


-----------------------------------------------------------------------------
(* The depth budget of the walk: SpecWalk                                  *)

\* the number of links on the shortest backward path from socket sock to
\* node n of an acyclic tree; more than the tree has nodes if there is none
RECURSIVE C22_Distance(_, _, _)
C22_Distance(tree, sock, n) ==
    IF ~IsLinked(tree, sock) THEN Len(tree) + 1
    ELSE LET m == FromNode(tree, sock)
             D == {C22_Distance(tree, <<m, i>>, n) : i \in 1..Len(tree[m].inputs)}
         IN  IF m = n THEN 1
             ELSE IF D = {} THEN Len(tree) + 1
             ELSE 1 + (CHOOSE x \in D : \A y \in D : x <= y)

\* C22 as claimed: called with budget d, the walk never returns an image
\* node whose every backward path from the start socket is longer than d
\* links.
C22_WithinBudget ==
    (tPc = "done" /\ tResult # 0) => C22_Distance(tTree, tStart, tResult) <= tDepth

\* C22 amended: the walk never returns an image node whose every backward
\* path from the start socket is longer than d + 1 links.
C22_WithinBudgetPlusOne ==
    (tPc = "done" /\ tResult # 0) => C22_Distance(tTree, tStart, tResult) <= tDepth + 1

\* an image returned from d + 1 links away, with a budget d of at least 1
C22_Witness ==
    /\ tPc = "done" /\ tResult # 0 /\ tDepth >= 1
    /\ C22_Distance(tTree, tStart, tResult) = tDepth + 1


-----------------------------------------------------------------------------
(* The walk with and without its visited set: SpecWalk                     *)

\* the same depth-bounded walk, depth first and in declaration order, that
\* keeps no visited set: the node found, 0 for none
RECURSIVE C25_PlainSock(_, _, _), C25_PlainInputs(_, _, _, _)
C25_PlainInputs(tree, n, i, d) ==
    IF i > Len(tree[n].inputs) THEN 0
    ELSE LET found == IF IsLinked(tree, <<n, i>>)
                      THEN C25_PlainSock(tree, <<n, i>>, d - 1) ELSE 0
         IN  IF found # 0 THEN found ELSE C25_PlainInputs(tree, n, i + 1, d)

C25_PlainSock(tree, sock, d) ==
    IF sock = NoSock \/ ~IsLinked(tree, sock) THEN 0
    ELSE LET n == FromNode(tree, sock)
         IN  IF IsImageNode(tree[n]) THEN n
             ELSE IF d > 0 THEN C25_PlainInputs(tree, n, 1, d) ELSE 0

\* C25: on every acyclic graph, for every depth budget, the walk returns
\* what the same walk without a visited set returns; a socket first reached
\* with the budget used up hides no image that a shorter path reaches
\* within the budget.
C25_VisitedOnlyTermination ==
    tPc = "done" => tResult = C25_PlainSock(tTree, tStart, tDepth)


-----------------------------------------------------------------------------
(* Synthesis in place: Spec                                                *)

\* the source material as inference sees it at the slot the loop is at
C23_Source ==
    IF addon = "cycles"
    THEN [materials[Old] EXCEPT !.use_nodes = TRUE,
                                !.tree = IF materials[Old].use_nodes \/ @ # <<>>
                                         THEN @ ELSE DefaultTree]
    ELSE materials[Old]

\* C23: in every conversion, in-place overwrite included, synthesis works
\* from what inference captured and reads no attribute of a source node
\* after the clearing of the target graph has discarded that node: a
\* conversion whose target is its source hands no source node to synthesis.
C23_NoReadAfterClear ==
    [][(pc = "slots" /\ hInferred' # hInferred /\ ~opts.create_new_materials)
          => ~ReadsSourceNodes(InferRoles(addon, C23_Source, data_images))]_vars


-----------------------------------------------------------------------------
(* The alpha mask of the toon synthesis: SpecBuild                         *)

\* input i of node q is linked from a greater-than node whose threshold
\* (its second input) is unlinked and holds the configured clip threshold
C24_FromThreshold(q, i) ==
    LET th == sNew.tree[q].inputs[i].from
    IN  /\ th # 0
        /\ sNew.tree[th].type = "MATH" /\ sNew.tree[th].op = "GREATER_THAN"
        /\ sNew.tree[th].inputs[2].from = 0
        /\ sNew.tree[th].inputs[2].val = <<sCfg.alpha_clip_threshold>>

-----------------------------------------------------------------------------
(* The colour spaces of the images after synthesis: SpecSynth              *)

\* the texture nodes of the target that feed input nm of a node of type `type`
C26_TexInto(type, nm) ==
    {n \in NodesOfType(sNew.tree, "TEX_IMAGE") :
        \E q \in NodesOfType(sNew.tree, type) :
            \E i \in 1..Len(sNew.tree[q].inputs) :
                sNew.tree[q].inputs[i].name = nm /\ sNew.tree[q].inputs[i].from = n}

\* the new base-colour texture: into the principled Base Color (cycles
\* line 224), into Color1 of the multiply node (eevee line 296)
C26_BaseTex ==
    IF sVariant = "cycles" THEN C26_TexInto("BSDF_PRINCIPLED", "Base Color")
    ELSE C26_TexInto("MIX_RGB", "Color1")

\* the new normal texture: into the normal map (cycles line 243)
C26_NormalTex == C26_TexInto("NORMAL_MAP", "Color")

\* the new separate-alpha texture: into the mix factor (cycles lines
\* 277-281), into the threshold or the grey-scale node (eevee lines 400-404)
C26_AlphaTex ==
    IF sRoles.alpha.mode # "SEPARATE_IMAGE" THEN {}
    ELSE IF sVariant = "cycles" THEN C26_TexInto("MIX_SHADER", "Fac")
    ELSE C26_TexInto("MATH", "Value") \cup C26_TexInto("RGBTOBW", "Color")

C26_Tagged(texs, cs) ==
    \A n \in texs : sImages[sNew.tree[n].image].colorspace = cs

\* C26: when synthesis completes, the image of the new base-colour texture
\* is tagged sRGB and the images of the new normal and separate-alpha
\* textures are tagged Non-Color, for every role result of the inference.
C26_ColourSpaces ==
    sPc = "built" =>
        /\ C26_Tagged(C26_BaseTex, "sRGB")
        /\ C26_Tagged(C26_NormalTex, "Non-Color")
        /\ C26_Tagged(C26_AlphaTex, "Non-Color")

\* the same holds wherever the base-colour image is not the image of the
\* normal or separate-alpha texture as well
C26_DistinctImages ==
    (/\ sPc = "built"
     /\ \A b \in C26_BaseTex : \A o \in C26_NormalTex \cup C26_AlphaTex :
            sNew.tree[b].image # sNew.tree[o].image)
        => /\ C26_Tagged(C26_BaseTex, "sRGB")
           /\ C26_Tagged(C26_NormalTex, "Non-Color")
           /\ C26_Tagged(C26_AlphaTex, "Non-Color")


-----------------------------------------------------------------------------
(* Dangling nodes in the synthesized graph: SpecBuild                      *)

\* the nodes that feed an input of a node of S
C27_Feeding(tree, S) ==
    {tree[n].inputs[i].from : <<n, i>> \in {s \in Sockets(tree) : s[1] \in S}} \ {0}

\* the nodes with a directed path of links into a node of S, S included:
\* k rounds of following links backwards
RECURSIVE C27_Upstream(_, _, _)
C27_Upstream(tree, S, k) ==
    IF k = 0 THEN S
    ELSE C27_Upstream(tree, S \cup C27_Feeding(tree, S), k - 1)

\* the nodes of the target without a path of links to the output node
C27_Dangling ==
    (1..Len(sNew.tree)) \
        C27_Upstream(sNew.tree, NodesOfType(sNew.tree, "OUTPUT_MATERIAL"), Len(sNew.tree))

\* C27: in both variants and for every role result, every node created by
\* synthesis has a directed path of links to the output node.
C27_NoDanglingNodes == sPc = "built" => C27_Dangling = {}

\* the path tracer's synthesis leaves no node behind, and the toon
\* synthesis none but the grey-scale and threshold nodes of its mask
C27_OnlyMaskNodesDangle ==
    sPc = "built" =>
        /\ sVariant = "cycles" => C27_Dangling = {}
        /\ \A n \in C27_Dangling :
               \/ sNew.tree[n].type = "RGBTOBW"
               \/ sNew.tree[n].type = "MATH" /\ sNew.tree[n].op = "GREATER_THAN"

====
